---------------------------- MODULE Spec2Model ----------------------------
(***************************************************************************)
(* A model of the repository analytics engine of ainalyzer (aina_lib).    *)
(*                                                                         *)
(* Each component of the library is a small state machine over one record *)
(* variable:                                                               *)
(*   stale : one run of get_repo_staleness_info   (git_staleness.py)       *)
(*   pool  : one run of check_staleness           (analysis.py)            *)
(*   disc  : one run of discover_repos            (discovery.py)           *)
(*   asm   : one conversion by tree_to_schema     (analysis.py)            *)
(*   gs    : one run of get_file_stats            (git_stats.py)           *)
(*   orch  : one run of _run_single_analysis      (cli.py, analysis.py)    *)
(*   cpl   : one run of get_coupling_data         (git_stats.py)           *)
(*   idx   : runs of generate_analysis_index      (analysis.py)            *)
(*   batch : one run of _analyze_all              (cli.py)                 *)
(*                                                                         *)
(* The answers of the external tools (git, the file system) are the       *)
(* inputs: they are drawn from small sets when the code asks for them.     *)
(*                                                                         *)
(* Conventions: Python's None is the empty set and a present value v is    *)
(* the singleton {v}; a text is the sequence of its lines, "" being a      *)
(* blank line; names are natural numbers ordered as Python orders the      *)
(* strings they stand for.                                                 *)
(***************************************************************************)
EXTENDS Integers, Sequences, FiniteSets, TLC

VARIABLES stale, pool, disc, asm, gs, orch, cpl, idx, batch

vars == <<stale, pool, disc, asm, gs, orch, cpl, idx, batch>>

\* What a step of one component leaves alone.
OthersOfStale == <<pool, disc, asm, gs, orch, cpl, idx, batch>>
OthersOfPool == <<stale, disc, asm, gs, orch, cpl, idx, batch>>
OthersOfDisc == <<stale, pool, asm, gs, orch, cpl, idx, batch>>
OthersOfAsm == <<stale, pool, disc, gs, orch, cpl, idx, batch>>
OthersOfGs == <<stale, pool, disc, asm, orch, cpl, idx, batch>>
OthersOfOrch == <<stale, pool, disc, asm, gs, cpl, idx, batch>>
OthersOfCpl == <<stale, pool, disc, asm, gs, orch, idx, batch>>
OthersOfIdx == <<stale, pool, disc, asm, gs, orch, cpl, batch>>

None == {}
Some(v) == {v}
IsNone(o) == o = {}
Get(o) == CHOOSE v \in o : TRUE

Off == [pc |-> "off"]

(***************************************************************************)
(* Texts                                                                   *)
(***************************************************************************)
RECURSIVE LStrip(_)
LStrip(t) == IF t # <<>> /\ Head(t) = "" THEN LStrip(Tail(t)) ELSE t

RECURSIVE RStrip(_)
RStrip(t) == IF t # <<>> /\ t[Len(t)] = "" THEN RStrip(SubSeq(t, 1, Len(t) - 1)) ELSE t

\* str.strip() on a text: leading and trailing blank lines go.
Strip(t) == RStrip(LStrip(t))

TextsOver(lines, n) == UNION {[1..k -> lines] : k \in 0..n}


(***************************************************************************)
(* get_repo_staleness_info (git_staleness.py)                              *)
(***************************************************************************)
\* Bounds of the clock: the current time and the length of a day in ticks,
\* and how far before and after the current time a commit may be dated.
NowTick == 6
DayTicks == 2
MaxAge == 5
MaxAhead == 3

\* An ISO-8601 string is the instant it denotes; a malformed one denotes none.
IsoDate(t) == [t |-> t, fmt |-> "iso"]
BadDate == [t |-> 0, fmt |-> "bad"]
DateStrings == {IsoDate(t) : t \in (NowTick - MaxAge)..(NowTick + MaxAhead)} \cup {BadDate}

\* A decimal string is the number it denotes; anything else makes int() raise.
IntStr(n) == [n |-> n, fmt |-> "int"]
BadInt == [n |-> 0, fmt |-> "bad"]

BranchNames == {"main", "feature", "HEAD"}
\* The candidate default branches, in the order the code tries them.
Candidates == <<"main", "master", "trunk", "dev">>
OriginPrefix == <<"refs", "remotes", "origin">>

FromLine == "From github.com:org/repo"
FetchLines == {"", FromLine, "fatal: unable to access", "remote: note"}

\* The answers git can give to each query of one run.
\* The standard output of a query that prints one value: the value, stripped
\* of its line end, or nothing.
ProcFail == [rc |-> 1, out |-> None]
BranchAnswers == {ProcFail} \cup {[rc |-> 0, out |-> Some(b)] : b \in BranchNames}
LastCommitAnswers == {ProcFail, [rc |-> 0, out |-> None]}
                        \cup {[rc |-> 0, out |-> Some(d)] : d \in DateStrings}
RemoteAnswers == {ProcFail, [rc |-> 0, out |-> None], [rc |-> 0, out |-> Some("origin")]}
SymRefAnswers == {ProcFail, [rc |-> 0, out |-> Some(OriginPrefix \o <<"main">>)],
                  [rc |-> 0, out |-> Some(OriginPrefix \o <<"develop">>)],
                  [rc |-> 0, out |-> Some(<<"refs", "heads", "main">>)]}
VerifyAnswers == SUBSET {Candidates[i] : i \in 1..Len(Candidates)}
FetchAnswers == {[rc |-> 0, timeout |-> TRUE, err |-> <<>>]}
                   \cup {[rc |-> rc, timeout |-> FALSE, err |-> e] :
                            rc \in {0, 1}, e \in TextsOver(FetchLines, 2)}
CountAnswers == {ProcFail, [rc |-> 0, out |-> None], [rc |-> 0, out |-> Some(BadInt)]}
                   \cup {[rc |-> 0, out |-> Some(IntStr(n))] : n \in 0..2}

\* What the repository's configuration says of the current branch: it has no
\* upstream, its upstream is the branch of its own name on origin
\* ("tracking"), or its upstream is another branch; and the number of
\* commits the branch lacks relative to the upstream (0 without one).
UpstreamFacts ==
    {[kind |-> "none", behind |-> 0]}
        \cup {[kind |-> k, behind |-> n] : k \in {"tracking", "other"}, n \in 0..2}
\* A detached HEAD has no upstream.
UpstreamsOf(branch) ==
    IF branch = Some("HEAD") THEN {u \in UpstreamFacts : u.kind = "none"} ELSE UpstreamFacts
\* The answers to rev-list --count branch..origin/branch: the count relative
\* to the upstream when that is the upstream, and otherwise whatever holds
\* of origin/branch, which may not exist.
CountAnswersFor(u) ==
    IF u.kind = "tracking" THEN {[rc |-> 0, out |-> Some(IntStr(u.behind))]}
    ELSE CountAnswers

RepoName(path) == path[Len(path)]

InitInfo(repo_path) ==
    [branch |-> None,
     repo |-> RepoName(repo_path),
     last_commit_date |-> None,
     last_commit_age_days |-> None,
     remote_status |-> "unknown",
     commits_behind |-> None,
     default_branch |-> None,
     error |-> None]

\* The state of one run: where it is, the record it builds, the git
\* queries it has issued, git's answers about the remote, to the fetch and
\* to the counts, and the upstream of the current branch.
StartRun(repo_path) ==
    [pc |-> "branch", info |-> InitInfo(repo_path), calls |-> <<>>,
     remote |-> None, fetch |-> None, upstream |-> None, counts |-> <<>>]

\* (now - dt).days: timedelta.days is the floor of the difference in days.
AgeDays(t) == (NowTick - t) \div DayTicks

AfterBranch(w, a) ==
    [w EXCEPT !.pc = "last_commit", !.calls = Append(@, "rev-parse HEAD"),
              !.info.branch = IF a.rc = 0 THEN a.out ELSE @]

AfterLastCommit(w, a) ==
    LET got == a.rc = 0 /\ ~IsNone(a.out)
    IN [w EXCEPT !.pc = "remote", !.calls = Append(@, "log -1"),
                 !.info.last_commit_date = IF got THEN a.out ELSE @,
                 !.info.last_commit_age_days =
                     IF got /\ Get(a.out).fmt = "iso" THEN Some(AgeDays(Get(a.out).t)) ELSE @]

AfterRemote(w, a) ==
    IF a.rc # 0 \/ IsNone(a.out)
    THEN [w EXCEPT !.pc = "returned", !.calls = Append(@, "remote"),
                   !.remote = Some(a), !.info.remote_status = "no_remote"]
    ELSE [w EXCEPT !.pc = "symbolic_ref", !.calls = Append(@, "remote"),
                   !.remote = Some(a)]

IsOriginRef(ref) == Len(ref) > Len(OriginPrefix) /\ SubSeq(ref, 1, Len(OriginPrefix)) = OriginPrefix

AfterSymRef(w, a) ==
    LET ref == IF a.rc = 0 THEN Get(a.out) ELSE <<>>
        found == a.rc = 0 /\ IsOriginRef(ref)
    IN [w EXCEPT !.pc = IF found THEN "fetch" ELSE "verify",
                 !.calls = Append(@, "symbolic-ref"),
                 !.info.default_branch = IF found THEN Some(ref[Len(ref)]) ELSE @]

\* The first candidate whose remote branch exists, if any.
FirstCandidate(existing) ==
    LET hits == {i \in 1..Len(Candidates) : Candidates[i] \in existing}
    IN IF hits = {} THEN None
       ELSE Some(Candidates[CHOOSE i \in hits : \A j \in hits : i <= j])

AfterVerify(w, existing) ==
    [w EXCEPT !.pc = "fetch", !.calls = Append(@, "rev-parse --verify"),
              !.info.default_branch = FirstCandidate(existing)]

HasFrom(text) == \E i \in 1..Len(text) : text[i] = FromLine

\* AfterFetch with the report of updates looked at before the exit status.
AfterFetch_UpdatesFirst(w, a) ==
    LET text == Strip(a.err)
        called == [w EXCEPT !.calls = Append(@, "fetch"), !.fetch = Some(a)]
    IN IF a.timeout
       THEN [called EXCEPT !.pc = "raised"]
       ELSE IF text # <<>> /\ HasFrom(text)
       THEN [called EXCEPT !.pc = IF IsNone(w.info.branch) THEN "returned" ELSE "count",
                           !.info.remote_status = "behind"]
       ELSE IF a.rc # 0
       THEN [called EXCEPT !.pc = "returned", !.info.remote_status = "fetch_failed",
                           !.info.error = IF text # <<>> THEN Some(text[1]) ELSE @]
       ELSE [called EXCEPT !.pc = "returned", !.info.remote_status = "up_to_date"]

\* AfterFetch with the first line of the error output recorded before the
\* exit status is looked at.
AfterFetch_ErrorFirst(w, a) ==
    LET text == Strip(a.err)
        called == [w EXCEPT !.calls = Append(@, "fetch"), !.fetch = Some(a),
                            !.info.error = IF text # <<>> THEN Some(text[1]) ELSE @]
    IN IF a.timeout
       THEN [called EXCEPT !.pc = "raised"]
       ELSE IF a.rc # 0
       THEN [called EXCEPT !.pc = "returned", !.info.remote_status = "fetch_failed"]
       ELSE IF text # <<>> /\ HasFrom(text)
       THEN [called EXCEPT !.pc = IF IsNone(w.info.branch) THEN "returned" ELSE "count",
                           !.info.remote_status = "behind"]
       ELSE [called EXCEPT !.pc = "returned", !.info.remote_status = "up_to_date"]

AfterFetch(w, a) ==
    LET text == Strip(a.err)
        called == [w EXCEPT !.calls = Append(@, "fetch"), !.fetch = Some(a)]
    IN IF a.timeout
       THEN [called EXCEPT !.pc = "raised"]
       ELSE IF a.rc # 0
       THEN [called EXCEPT !.pc = "returned", !.info.remote_status = "fetch_failed",
                           !.info.error = IF text # <<>> THEN Some(text[1]) ELSE @]
       ELSE IF text # <<>> /\ HasFrom(text)
       THEN [called EXCEPT !.pc = IF IsNone(w.info.branch) THEN "returned" ELSE "count",
                           !.info.remote_status = "behind"]
       ELSE [called EXCEPT !.pc = "returned", !.info.remote_status = "up_to_date"]

CountOk(a) == a.rc = 0 /\ ~IsNone(a.out)

\* int(stdout.strip()), a ValueError leaving the count as it was.
Counted(behind, a) ==
    IF CountOk(a) /\ Get(a.out).fmt = "int" THEN Some(Get(a.out).n) ELSE behind

AfterCount(w, a) ==
    LET fallback == /\ ~CountOk(a)
                    /\ ~IsNone(w.info.default_branch)
                    /\ w.info.default_branch # w.info.branch
    IN [w EXCEPT !.pc = IF fallback THEN "count_default" ELSE "returned",
                 !.calls = Append(@, "rev-list branch"),
                 !.info.commits_behind = Counted(@, a)]

AfterCountDefault(w, a) ==
    [w EXCEPT !.pc = "returned", !.calls = Append(@, "rev-list default"),
              !.info.commits_behind = Counted(@, a)]

\* A repository path is the sequence of its segments; the analysis root is
\* <<1>>, and a child of the root may carry the root's own name.
RootPath == <<1>>
MaxName == 2
ChildPaths == {RootPath \o <<n>> : n \in 1..MaxName}
RepoPaths == {RootPath} \cup ChildPaths

GetBranch ==
    /\ stale.pc = "branch"
    /\ \E a \in BranchAnswers : stale' = AfterBranch(stale, a)
    /\ UNCHANGED OthersOfStale

GetLastCommit ==
    /\ stale.pc = "last_commit"
    /\ \E a \in LastCommitAnswers : stale' = AfterLastCommit(stale, a)
    /\ UNCHANGED OthersOfStale

CheckRemote ==
    /\ stale.pc = "remote"
    /\ \E a \in RemoteAnswers : stale' = AfterRemote(stale, a)
    /\ UNCHANGED OthersOfStale

ReadSymbolicRef ==
    /\ stale.pc = "symbolic_ref"
    /\ \E a \in SymRefAnswers : stale' = AfterSymRef(stale, a)
    /\ UNCHANGED OthersOfStale

VerifyCandidates ==
    /\ stale.pc = "verify"
    /\ \E existing \in VerifyAnswers : stale' = AfterVerify(stale, existing)
    /\ UNCHANGED OthersOfStale

FetchDryRun ==
    /\ stale.pc = "fetch"
    /\ \E a \in FetchAnswers : stale' = AfterFetch(stale, a)
    /\ UNCHANGED OthersOfStale

CountBehind ==
    /\ stale.pc = "count"
    /\ \E u \in UpstreamsOf(stale.info.branch) : \E a \in CountAnswersFor(u) :
          stale' = [AfterCount(stale, a) EXCEPT !.upstream = Some(u),
                                                !.counts = Append(@, a)]
    /\ UNCHANGED OthersOfStale

CountBehindDefault ==
    /\ stale.pc = "count_default"
    /\ \E a \in CountAnswers :
          stale' = [AfterCountDefault(stale, a) EXCEPT !.counts = Append(@, a)]
    /\ UNCHANGED OthersOfStale

InitStaleness ==
    /\ stale \in {StartRun(p) : p \in RepoPaths}
    /\ pool = Off /\ disc = Off /\ asm = Off /\ gs = Off
    /\ orch = Off /\ cpl = Off /\ idx = Off /\ batch = Off

NextStaleness ==
    \/ GetBranch \/ GetLastCommit \/ CheckRemote \/ ReadSymbolicRef
    \/ VerifyCandidates \/ FetchDryRun \/ CountBehind \/ CountBehindDefault

SpecStaleness == InitStaleness /\ [][NextStaleness]_vars

(***************************************************************************)
(* check_staleness (analysis.py): one worker per repository, each running  *)
(* get_repo_staleness_info to its end against the answers of its own       *)
(* repository; the caller collects the futures as they complete.           *)
(***************************************************************************)
\* One run from state w to its end, git answering as env says.
RECURSIVE RunToEnd(_, _)
RunToEnd(w, env) ==
    CASE w.pc = "branch" -> RunToEnd(AfterBranch(w, env.branch), env)
      [] w.pc = "last_commit" -> RunToEnd(AfterLastCommit(w, env.last_commit), env)
      [] w.pc = "remote" -> RunToEnd(AfterRemote(w, env.remote), env)
      [] w.pc = "symbolic_ref" -> RunToEnd(AfterSymRef(w, env.symbolic_ref), env)
      [] w.pc = "verify" -> RunToEnd(AfterVerify(w, env.verify), env)
      [] w.pc = "fetch" -> RunToEnd(AfterFetch(w, env.fetch), env)
      [] w.pc = "count" -> RunToEnd(AfterCount(w, env.count), env)
      [] w.pc = "count_default" -> RunToEnd(AfterCountDefault(w, env.count), env)
      [] OTHER -> w

get_repo_staleness_info(repo_path, env) == RunToEnd(StartRun(repo_path), env)

\* The repositories the workers meet: one without a remote, and four with
\* a remote whose fetch fails, hangs, reports updates or reports none.
BaseEnv ==
    [branch |-> [rc |-> 0, out |-> Some("main")],
     remote |-> [rc |-> 0, out |-> Some("origin")],
     fetch |-> [rc |-> 0, timeout |-> FALSE, err |-> <<>>],
     last_commit |-> [rc |-> 0, out |-> Some(IsoDate(NowTick))],
     symbolic_ref |-> [rc |-> 0, out |-> Some(OriginPrefix \o <<"main">>)],
     verify |-> {},
     count |-> [rc |-> 0, out |-> Some(IntStr(1))]]

PoolEnvs ==
    {BaseEnv,
     [BaseEnv EXCEPT !.remote = [rc |-> 0, out |-> None]],
     [BaseEnv EXCEPT !.fetch = [rc |-> 1,
                                timeout |-> FALSE,
                                err |-> <<"fatal: unable to access">>]],
     [BaseEnv EXCEPT !.fetch = [rc |-> 0, timeout |-> TRUE, err |-> <<>>]],
     [BaseEnv EXCEPT !.fetch = [rc |-> 0, timeout |-> FALSE, err |-> <<FromLine>>]]}

\* Python's list.sort(key=lambda x: x['repo']): a stable insertion of each
\* record after the records whose name is not greater.
RECURSIVE InsertByRepo(_, _)
InsertByRepo(sorted, x) ==
    IF sorted = <<>> THEN <<x>>
    ELSE IF Head(sorted).repo <= x.repo THEN <<Head(sorted)>> \o InsertByRepo(Tail(sorted), x)
    ELSE <<x>> \o sorted

RECURSIVE SortByRepo(_)
SortByRepo(infos) ==
    IF infos = <<>> THEN <<>>
    ELSE InsertByRepo(SortByRepo(SubSeq(infos, 1, Len(infos) - 1)), infos[Len(infos)])

\* The lists discover_repos can hand over: distinct paths in ascending order,
\* the root (if it is a repository) before its children.
MaxRepos == 2
RECURSIVE PathLess(_, _)
PathLess(p, q) ==
    IF p = <<>> THEN q # <<>>
    ELSE IF q = <<>> THEN FALSE
    ELSE IF Head(p) # Head(q) THEN Head(p) < Head(q)
    ELSE PathLess(Tail(p), Tail(q))

RepoLists ==
    {l \in UNION {[1..n -> RepoPaths] : n \in 0..MaxRepos} :
        \A i \in 1..Len(l) : \A j \in 1..Len(l) : i < j => PathLess(l[i], l[j])}

StartPool(repos) ==
    [pc |-> "collecting", repos |-> repos,
     future |-> [i \in 1..Len(repos) |-> None],
     collected |-> {}, staleness_infos |-> <<>>]

\* Worker i runs get_repo_staleness_info on its repository to the end.
WorkerDone(i) ==
    /\ pool.pc \in {"collecting", "unwinding"}
    /\ i \in 1..Len(pool.repos)
    /\ IsNone(pool.future[i])
    /\ \E env \in PoolEnvs :
          pool' = [pool EXCEPT !.future[i] =
                                  Some(get_repo_staleness_info(pool.repos[i], env))]
    /\ UNCHANGED OthersOfPool

\* as_completed yields a finished future; future.result() returns the
\* worker's record or raises what the worker raised.
Collect(i) ==
    /\ pool.pc = "collecting"
    /\ i \in 1..Len(pool.repos)
    /\ ~IsNone(pool.future[i])
    /\ i \notin pool.collected
    /\ LET w == Get(pool.future[i])
       IN IF w.pc = "raised"
          THEN pool' = [pool EXCEPT !.pc = "unwinding"]
          ELSE pool' = [pool EXCEPT !.collected = @ \cup {i},
                                    !.staleness_infos = Append(@, w.info)]
    /\ UNCHANGED OthersOfPool

\* Leaving the with block on an exception: the executor waits for the
\* workers still running, then the exception leaves check_staleness.
Unwind ==
    /\ pool.pc = "unwinding"
    /\ \A i \in 1..Len(pool.repos) : ~IsNone(pool.future[i])
    /\ pool' = [pool EXCEPT !.pc = "raised"]
    /\ UNCHANGED OthersOfPool

SortAndReturn ==
    /\ pool.pc = "collecting"
    /\ pool.collected = 1..Len(pool.repos)
    /\ pool' = [pool EXCEPT !.pc = "returned",
                            !.staleness_infos = SortByRepo(@)]
    /\ UNCHANGED OthersOfPool

InitPool ==
    /\ pool \in {StartPool(l) : l \in RepoLists}
    /\ stale = Off /\ disc = Off /\ asm = Off /\ gs = Off
    /\ orch = Off /\ cpl = Off /\ idx = Off /\ batch = Off

NextPool ==
    \/ \E i \in 1..MaxRepos : WorkerDone(i)
    \/ \E i \in 1..MaxRepos : Collect(i)
    \/ Unwind
    \/ SortAndReturn

SpecPool == InitPool /\ [][NextPool]_vars

(***************************************************************************)
(* Properties of the staleness checker                                     *)
(***************************************************************************)
TerminalStatuses == {"no_remote", "fetch_failed", "behind", "up_to_date"}

\* C2: a run starts at remote_status "unknown" and keeps it until the remote
\* is classified; a run that returns has exactly one of the four terminal
\* statuses, decided in this order: no remote configured gives "no_remote"
\* and no fetch is attempted; otherwise a dry-run fetch with a non-zero exit
\* gives "fetch_failed" with error the first line of the (stripped) error
\* text, null when that text is empty; otherwise a fetch output that reports
\* updates gives "behind"; otherwise "up_to_date".
C2_StatusDecidedInOrder ==
    /\ stale.pc \in {"branch", "last_commit", "remote", "symbolic_ref", "verify", "fetch"}
          => stale.info.remote_status = "unknown"
    /\ stale.pc \in {"count", "count_default"} => stale.info.remote_status = "behind"
    /\ stale.pc = "returned" =>
          /\ stale.info.remote_status \in TerminalStatuses
          /\ LET r == Get(stale.remote)
             IN IF r.rc # 0 \/ IsNone(r.out)
                THEN /\ stale.info.remote_status = "no_remote"
                     /\ IsNone(stale.fetch)
                     /\ \A k \in 1..Len(stale.calls) : stale.calls[k] # "fetch"
                ELSE LET f == Get(stale.fetch)
                         text == Strip(f.err)
                     IN IF f.rc # 0
                        THEN /\ stale.info.remote_status = "fetch_failed"
                             /\ stale.info.error =
                                   IF text = <<>> THEN None ELSE Some(Head(text))
                        ELSE IF \E k \in 1..Len(f.err) : f.err[k] = FromLine
                        THEN stale.info.remote_status = "behind"
                        ELSE stale.info.remote_status = "up_to_date"

\* A fetch that failed with a message after a blank first line has returned.
C2_Witness ==
    /\ stale.pc = "returned"
    /\ stale.info.remote_status = "fetch_failed"
    /\ ~IsNone(stale.fetch)
    /\ Get(stale.fetch).err = <<"", "fatal: unable to access">>
    /\ stale.info.error = Some("fatal: unable to access")

\* The records of the workers in the order of the input list.
InputOrderInfos == [i \in 1..Len(pool.repos) |-> Get(pool.future[i]).info]

\* C3: whatever the order in which the workers complete, check_staleness
\* returns the same list, one record per input repository, ordered by
\* repository name ascending: the list it returns when the workers complete
\* in the order of the input.
C3_SameListForEveryOrder ==
    pool.pc = "returned" =>
        /\ Len(pool.staleness_infos) = Len(pool.repos)
        /\ \A i \in 1..Len(pool.staleness_infos) : \A j \in 1..Len(pool.staleness_infos) :
              i < j => pool.staleness_infos[i].repo <= pool.staleness_infos[j].repo
        /\ pool.staleness_infos = SortByRepo(InputOrderInfos)

\* C4: a fetch that does not finish within its timeout is captured as
\* remote_status "fetch_failed" of its repository, and nothing is raised
\* out of check_staleness.
C4_RemoteFailureCaptured ==
    /\ pool.pc \notin {"unwinding", "raised"}
    /\ pool.pc # "off" =>
          \A i \in 1..Len(pool.repos) :
              (~IsNone(pool.future[i]) /\ ~IsNone(Get(pool.future[i]).fetch)
                  /\ Get(Get(pool.future[i]).fetch).timeout)
                 => /\ Get(pool.future[i]).pc = "returned"
                    /\ Get(pool.future[i]).info.remote_status = "fetch_failed"

(***************************************************************************)
(* discover_repos (discovery.py)                                           *)
(*                                                                         *)
(* The file system is the set of its directories, each the path from the  *)
(* root of the file system; ".git" is the name 0, below every other name   *)
(* in the order of strings.                                                *)
(***************************************************************************)
DotGit == 0
max_depth == 1
\* How many directories the file system holds and how deep below the
\* analysis root they lie.
MaxDirs == 6
MaxDepth == 3

Parent(p) == SubSeq(p, 1, Len(p) - 1)
Depth(p) == Len(p) - Len(RootPath)
SubDirs(dirs, d) == {c \in dirs : Len(c) = Len(d) + 1 /\ Parent(c) = d}

\* sorted(repos): insertion of each path before the first greater one.
RECURSIVE InsertPath(_, _)
InsertPath(sorted, x) ==
    IF sorted = <<>> THEN <<x>>
    ELSE IF PathLess(x, Head(sorted)) THEN <<x>> \o sorted
    ELSE <<Head(sorted)>> \o InsertPath(Tail(sorted), x)

RECURSIVE SortPaths(_)
SortPaths(paths) ==
    IF paths = <<>> THEN <<>>
    ELSE InsertPath(SortPaths(Tail(paths)), Head(paths))

\* Descends with the depth limit one level too deep.
Descends_OneTooDeep(depth) == ~(depth > max_depth)

\* Whether the walk descends from a directory at this depth.
Descends(depth) == ~(depth >= max_depth)

\* One step of path_obj.walk(): the directory, its '.git' test, and the
\* subdirectories the walk goes on to.
AfterVisit(d, root) ==
    [d EXCEPT !.repos = IF (root \o <<DotGit>>) \in d.dirs THEN Append(@, root) ELSE @,
              !.pending = (@ \ {root}) \cup
                             (IF Descends(Depth(root)) THEN SubDirs(d.dirs, root) ELSE {})]

\* The environment makes a directory: the root, or a child of a directory.
Mkdir(p) ==
    /\ disc.pc = "setup"
    /\ p \notin disc.dirs
    /\ p = RootPath \/ (Len(p) > Len(RootPath) /\ Parent(p) \in disc.dirs)
    /\ Cardinality(disc.dirs) < MaxDirs
    /\ Depth(p) <= MaxDepth
    /\ disc' = [disc EXCEPT !.dirs = @ \cup {p}]
    /\ UNCHANGED OthersOfDisc

DiscoverStart ==
    /\ disc.pc = "setup"
    /\ IF RootPath \notin disc.dirs
       THEN disc' = [disc EXCEPT !.pc = "raised"]
       ELSE disc' = [disc EXCEPT !.pc = "walk", !.pending = {RootPath}]
    /\ UNCHANGED OthersOfDisc

Visit(root) ==
    /\ disc.pc = "walk"
    /\ root \in disc.pending
    /\ disc' = AfterVisit(disc, root)
    /\ UNCHANGED OthersOfDisc

DiscoverReturn ==
    /\ disc.pc = "walk"
    /\ disc.pending = {}
    /\ disc' = [disc EXCEPT !.pc = "returned", !.repos = SortPaths(@)]
    /\ UNCHANGED OthersOfDisc

NewDirs == {RootPath} \cup {d \o <<n>> : d \in disc.dirs, n \in 0..MaxName}

InitDisc ==
    /\ disc = [pc |-> "setup", repos |-> <<>>, dirs |-> {}, pending |-> {}]
    /\ stale = Off /\ pool = Off /\ asm = Off /\ gs = Off
    /\ orch = Off /\ cpl = Off /\ idx = Off /\ batch = Off

NextDisc ==
    \/ \E p \in NewDirs : Mkdir(p)
    \/ DiscoverStart
    \/ \E root \in disc.pending : Visit(root)
    \/ DiscoverReturn

SpecDisc == InitDisc /\ [][NextDisc]_vars

\* C9: discover_repos returns, in ascending order, exactly the directories
\* among the root and its immediate children that contain a .git directory;
\* a directory two or more levels below the root is never returned; an
\* existing root without repositories gives the empty list, not an error.
C9_RootAndChildrenOnly ==
    /\ disc.pc = "raised" => RootPath \notin disc.dirs
    /\ disc.pc = "returned" =>
          /\ {disc.repos[i] : i \in 1..Len(disc.repos)} =
                {d \in disc.dirs : Len(d) <= Len(RootPath) + 1 /\ (d \o <<DotGit>>) \in disc.dirs}
          /\ \A i \in 1..Len(disc.repos) : \A j \in 1..Len(disc.repos) :
                i < j => PathLess(disc.repos[i], disc.repos[j])

\* .git at the root, at a child and at a grandchild: the root and the child
\* are returned.
C9_Witness ==
    /\ disc.pc = "returned"
    /\ {RootPath \o <<DotGit>>, RootPath \o <<2, DotGit>>, RootPath \o <<2, 1, DotGit>>}
          \subseteq disc.dirs
    /\ disc.repos = <<RootPath, RootPath \o <<2>>>>

(***************************************************************************)
(* tree_to_schema (analysis.py)                                            *)
(*                                                                         *)
(* The internal tree {'_dirs': {...}, '_files': [...]} is held flat: dirs  *)
(* is the set of the paths of its directories below the tree's root <<>>,  *)
(* and files is the list of its file entries in the order of insertion,    *)
(* each with the directory that holds it.                                  *)
(***************************************************************************)
\* How many directories and files a tree holds, and how deep they nest.
MaxNodes == 4
MaxTreeDepth == 3
FileValues == {3}

FileEntry(dir, name, value) ==
    [path |-> dir \o <<name>>,
     dir |-> dir,
     name |-> name,
     value |-> value,
     language |-> "Python",
     extension |-> ".py"]

\* The statistics get_file_stats gives for a file with history.
SomeStats ==
    [last_commit_date |-> Some("2026-10-20"),
     commits_3m |-> 1,
     commits_1y |-> 2,
     contributors |-> [count |-> 1, names |-> <<"Alice">>]]

\* f"{path_prefix}/{name}" if path_prefix else name
JoinPath(path_prefix, name) == path_prefix \o <<name>>

\* The names of a set in ascending order.
RECURSIVE SortedNames(_)
SortedNames(names) ==
    IF names = {} THEN <<>>
    ELSE LET least == CHOOSE n \in names : \A m \in names : n <= m
         IN <<least>> \o SortedNames(names \ {least})

\* sorted(files, key=name): a stable insertion.
RECURSIVE InsertByName(_, _)
InsertByName(sorted, x) ==
    IF sorted = <<>> THEN <<x>>
    ELSE IF Head(sorted).name <= x.name THEN <<Head(sorted)>> \o InsertByName(Tail(sorted), x)
    ELSE <<x>> \o sorted

SortByName_AsListed(files) == files
RECURSIVE SortByName(_)
SortByName(files) ==
    IF files = <<>> THEN <<>>
    ELSE InsertByName(SortByName(SubSeq(files, 1, Len(files) - 1)), files[Len(files)])

FilesOf(tree, dir) == SelectSeq(tree.files, LAMBDA f : f.dir = dir)

\* The 'commits' and 'contributors' of a file node: none when the caller
\* passes no statistics, zeros when the statistics do not have the file.
FileNode(file, node_path, git_stats) ==
    LET has == ~IsNone(git_stats) /\ file.path \in DOMAIN Get(git_stats)
        stats == Get(git_stats)[file.path]
    IN [path |-> JoinPath(node_path, file.name),
        name |-> file.name,
        value |-> file.value,
        language |-> file.language,
        extension |-> file.extension,
        contributors |-> IF has THEN Some(stats.contributors) ELSE None,
        type |-> "file",
        commits |-> IF IsNone(git_stats) THEN None
                    ELSE IF has
                    THEN Some([last_commit_date |-> stats.last_commit_date,
                               last_3_months |-> stats.commits_3m,
                               last_year |-> stats.commits_1y])
                    ELSE Some([last_commit_date |-> None,
                               last_3_months |-> 0,
                               last_year |-> 0])]

\* The children a directory node keeps of the nodes of its subdirectories.
RECURSIVE KeptChildren(_)
KeptChildren(nodes) ==
    IF nodes = <<>> THEN <<>>
    ELSE (IF IsNone(Head(nodes)) THEN <<>> ELSE <<Get(Head(nodes))>>)
            \o KeptChildren(Tail(nodes))

RECURSIVE tree_to_schema(_, _, _, _, _)
tree_to_schema(tree, dir, name, path_prefix, git_stats) ==
    LET node_path == JoinPath(path_prefix, name)
        subdirs == SubDirs(tree.dirs, dir)
        files == FilesOf(tree, dir)
        has_dirs == subdirs # {}
        has_files == files # <<>>
        dirnames == SortedNames({d[Len(d)] : d \in subdirs})
        dirnodes == [i \in 1..Len(dirnames) |->
                        tree_to_schema(tree, dir \o <<dirnames[i]>>, dirnames[i],
                                       node_path, git_stats)]
        sorted == SortByName(files)
        filenodes == [i \in 1..Len(sorted) |-> FileNode(sorted[i], node_path, git_stats)]
    IN IF ~has_dirs /\ ~has_files THEN None
       ELSE Some([path |-> node_path,
                  name |-> name,
                  type |-> "directory",
                  children |-> KeptChildren(dirnodes) \o filenodes])

\* The caller's tree grows by a directory or by a file entry.
AddDir(p) ==
    /\ asm.pc = "setup"
    /\ p \notin asm.tree.dirs
    /\ Len(p) = 1 \/ Parent(p) \in asm.tree.dirs
    /\ Len(p) <= MaxTreeDepth
    /\ Cardinality(asm.tree.dirs) + Len(asm.tree.files) < MaxNodes
    /\ asm' = [asm EXCEPT !.tree.dirs = @ \cup {p}]
    /\ UNCHANGED OthersOfAsm

AddFile(dir, name, value) ==
    /\ asm.pc = "setup"
    /\ dir = <<>> \/ dir \in asm.tree.dirs
    /\ \A i \in 1..Len(asm.tree.files) : asm.tree.files[i].path # dir \o <<name>>
    /\ Cardinality(asm.tree.dirs) + Len(asm.tree.files) < MaxNodes
    /\ asm' = [asm EXCEPT !.tree.files = Append(@, FileEntry(dir, name, value))]
    /\ UNCHANGED OthersOfAsm

FilePaths(tree) == {tree.files[i].path : i \in 1..Len(tree.files)}

\* tree_to_schema(tree, name, path_prefix, git_stats) on the whole tree.
Convert(name, path_prefix, git_stats) ==
    /\ asm.pc = "setup"
    /\ asm' = [asm EXCEPT !.pc = "converted", !.git_stats = git_stats,
                          !.result = tree_to_schema(asm.tree, <<>>, name, path_prefix,
                                                    git_stats)]
    /\ UNCHANGED OthersOfAsm

InitAsm ==
    /\ asm = [pc |-> "setup", tree |-> [dirs |-> {}, files |-> <<>>],
              git_stats |-> None, result |-> None]
    /\ stale = Off /\ pool = Off /\ disc = Off /\ gs = Off
    /\ orch = Off /\ cpl = Off /\ idx = Off /\ batch = Off

NextAsm ==
    \/ \E d \in {<<>>} \cup asm.tree.dirs : \E n \in 1..MaxName : AddDir(d \o <<n>>)
    \/ \E d \in {<<>>} \cup asm.tree.dirs : \E n \in 1..MaxName : \E v \in FileValues :
          AddFile(d, n, v)
    \/ \E prefix \in {<<>>, RootPath} :
       \E git_stats \in {None} \cup {Some([q \in S |-> SomeStats]) : S \in SUBSET FilePaths(asm.tree)} :
          Convert(1, prefix, git_stats)

SpecAsm == InitAsm /\ [][NextAsm]_vars

RECURSIVE NoEmptyDirectory(_)
NoEmptyDirectory(node) ==
    node.type = "directory" =>
        /\ node.children # <<>>
        /\ \A i \in 1..Len(node.children) : NoEmptyDirectory(node.children[i])

StatNow == 1000
NinetyDays == 90
three_months_ago == StatNow - NinetyDays

\* The author dates git prints with %aI, and the day each one denotes; any
\* other string makes datetime.fromisoformat raise ValueError.
IsoDays == [d \in {"now-90d", "now-91d"} |->
               IF d = "now-90d" THEN StatNow - NinetyDays ELSE StatNow - NinetyDays - 1]
DateTokens == DOMAIN IsoDays \cup {"garbage"}

IsIso(date) == Len(date) = 1 /\ date[1] \in DOMAIN IsoDays
\* dt.timestamp() of a well-formed date string.
Timestamp(date) == IsoDays[date[1]]

\* The display names of the authors: one of them holds a "|".
AuthorNames == {<<"Ann">>, <<"Bob">>, <<"Ann", "|", "Bob">>}
\* The order of the characters of names, as Python compares strings.
CharRank == [c \in {"Ann", "Bob", "|"} |-> IF c = "Ann" THEN 1 ELSE IF c = "Bob" THEN 2 ELSE 3]

TAB == "\t"
\* Two files; "ue.py" stands for a name with a non-ASCII letter, which git
\* prints in --name-status lines as a quoted string of escaped bytes.
Files == {"a.py", "ue.py"}
GitQuote(f) == IF f = "ue.py" THEN "<ue.py quoted>" ELSE f
PlainStatuses == {"A", "M", "D", "T"}
RenameStatus == "R100"

\* str.split(sep)
RECURSIVE Split(_, _)
Split(line, sep) ==
    IF \A i \in 1..Len(line) : line[i] # sep THEN <<line>>
    ELSE LET k == CHOOSE i \in 1..Len(line) :
                     line[i] = sep /\ \A j \in 1..(i - 1) : line[j] # sep
         IN <<SubSeq(line, 1, k - 1)>> \o Split(SubSeq(line, k + 1, Len(line)), sep)

\* ---- git ----
Change(st, path) == [path |-> path, st |-> st, old |-> ""]
Rename(old, new) == [path |-> new, st |-> RenameStatus, old |-> old]

AllChanges == {Change(st, f) : st \in PlainStatuses, f \in Files}
                 \cup {Rename(pr[1], pr[2]) : pr \in {q \in Files \X Files : q[1] # q[2]}}

Touched(c) == IF c.st = RenameStatus THEN {c.path, c.old} ELSE {c.path}

\* A change git can report for a tree that holds the files `exists`.
Possible(c, exists) ==
    CASE c.st = "A" -> c.path \notin exists
      [] c.st = RenameStatus -> c.old \in exists /\ c.path \notin exists
      [] OTHER -> c.path \in exists

\* The changes of one commit: one or two changes of different files.
ChangeSets ==
    {cs \in {{c, d} : c \in AllChanges, d \in AllChanges} :
        \A c \in cs : \A d \in cs : c # d => Touched(c) \cap Touched(d) = {}}

ExistsAfter(exists, cs) ==
    (exists \ ({c.path : c \in {x \in cs : x.st = "D"}}
                  \cup {c.old : c \in {x \in cs : x.st = RenameStatus}}))
       \cup {c.path : c \in {x \in cs : x.st \in {"A", RenameStatus}}}

RECURSIVE SetToSeq(_)
SetToSeq(S) ==
    IF S = {} THEN <<>>
    ELSE LET x == CHOOSE y \in S : TRUE IN <<x>> \o SetToSeq(S \ {x})

\* 'COMMIT|%aI|%aN' and '%aI|%aN'
HeaderLine(c) == <<"COMMIT", "|", c.date, "|">> \o c.author
FollowLine(c) == <<c.date, "|">> \o c.author
\* A --name-status line.
StatusLine(ch) ==
    IF ch.st = RenameStatus
    THEN <<ch.st, TAB, GitQuote(ch.old), TAB, GitQuote(ch.path)>>
    ELSE <<ch.st, TAB, GitQuote(ch.path)>>

StatusLines(changes) == [i \in 1..Len(changes) |-> StatusLine(changes[i])]

\* git log -M --name-status --format=COMMIT|%aI|%aN --since='1 year ago':
\* newest commit first, a blank line after each header.
RECURSIVE BulkLog(_)
BulkLog(commits) ==
    IF commits = <<>> THEN <<>>
    ELSE LET c == commits[Len(commits)]
         IN <<HeaderLine(c), <<>>>> \o StatusLines(c.changes)
               \o BulkLog(SubSeq(commits, 1, Len(commits) - 1))

\* Whether a commit changes the file git is following, and the name git
\* follows before the commit.
Touches(c, track) ==
    \E i \in 1..Len(c.changes) : track \in Touched(c.changes[i])
NameBefore(c, track) ==
    IF \E i \in 1..Len(c.changes) :
          c.changes[i].st = RenameStatus /\ c.changes[i].path = track
    THEN c.changes[CHOOSE i \in 1..Len(c.changes) :
                      c.changes[i].st = RenameStatus /\ c.changes[i].path = track].old
    ELSE track

\* git log --follow --format=%aI|%aN --since='1 year ago' -- file_path
RECURSIVE FollowLog(_, _)
FollowLog(commits, track) ==
    IF commits = <<>> THEN <<>>
    ELSE LET c == commits[Len(commits)]
         IN (IF Touches(c, track) THEN <<FollowLine(c)>> ELSE <<>>)
               \o FollowLog(SubSeq(commits, 1, Len(commits) - 1), NameBefore(c, track))

\* What subprocess.run returns for the two commands.  The pathspec of the
\* second one is taken literally: a quoted string names no file.
BulkAnswer(commits, rc) ==
    [returncode |-> rc, stdout |-> IF rc = 0 THEN BulkLog(commits) ELSE <<>>]
FollowAnswer(commits, file_path, rc) ==
    [returncode |-> rc,
     stdout |-> IF rc = 0 /\ Len(file_path) = 1 /\ file_path[1] \in Files
                THEN FollowLog(commits, file_path[1]) ELSE <<>>]

\* ---- get_file_stats ----
NewStats ==
    [last_commit_date |-> None,
     commits_3m |-> 0,
     commits_1y |-> 0,
     contributors_set |-> {}]

\* stats[file_path] of the defaultdict, and an assignment to it
Entry(stats, file_path) ==
    IF file_path \in DOMAIN stats THEN stats[file_path] ELSE NewStats
Put(stats, file_path, v) ==
    [q \in DOMAIN stats \cup {file_path} |-> IF q = file_path THEN v ELSE stats[q]]

StartsWith(line, prefix) ==
    Len(line) >= Len(prefix) /\ SubSeq(line, 1, Len(prefix)) = prefix

\* The 3-month test of the bulk pass; current_timestamp is 0 (falsy) until
\* a header is read and after a date that does not parse.
InLastThreeMonths_Strict(current_timestamp) ==
    current_timestamp # 0 /\ current_timestamp > three_months_ago
InLastThreeMonths_UnparsedCounts(current_timestamp) ==
    current_timestamp = 0 \/ current_timestamp >= three_months_ago
InLastThreeMonths(current_timestamp) ==
    current_timestamp # 0 /\ current_timestamp >= three_months_ago

ParseStart ==
    [stats |-> <<>>,
     current_timestamp |-> 0,
     renamed_files |-> {},
     current_date |-> None,
     current_author |-> <<>>]

\* One status line attributed to file_path.
Count(s, file_path) ==
    LET e == Entry(s.stats, file_path)
        e1 == [e EXCEPT !.commits_1y = @ + 1]
        e2 == IF InLastThreeMonths(s.current_timestamp)
              THEN [e1 EXCEPT !.commits_3m = @ + 1] ELSE e1
        e3 == IF IsNone(e2.last_commit_date)
              THEN [e2 EXCEPT !.last_commit_date = s.current_date] ELSE e2
        e4 == IF s.current_author # <<>>
              THEN [e3 EXCEPT !.contributors_set = @ \cup {s.current_author}] ELSE e3
    IN [s EXCEPT !.stats = Put(s.stats, file_path, e4)]

\* The body of the loop over the lines of the bulk log.
BulkStep(s, line) ==
    IF line = <<>> THEN s
    ELSE IF StartsWith(line, <<"COMMIT", "|">>)
    THEN LET parts == Split(line, "|")
         IN [s EXCEPT !.current_date = Some(parts[2]),
                      !.current_author = IF Len(parts) > 2 THEN parts[3] ELSE <<>>,
                      !.current_timestamp =
                          IF IsIso(parts[2]) THEN Timestamp(parts[2]) ELSE 0]
    ELSE LET parts == Split(line, TAB)
         IN IF Len(parts) < 2 THEN s
            ELSE IF StartsWith(parts[1], <<RenameStatus>>)
            THEN IF Len(parts) = 3
                 THEN Count([s EXCEPT !.renamed_files = @ \cup {parts[3]}], parts[3])
                 ELSE s
            ELSE IF parts[1] \in {<<"M">>, <<"A">>, <<"D">>}
            THEN Count(s, parts[2])
            ELSE s

RECURSIVE BulkPass(_, _)
BulkPass(s, lines) ==
    IF lines = <<>> THEN s ELSE BulkPass(BulkStep(s, Head(lines)), Tail(lines))

\* ---- get_file_stats_with_follow ----
\* The body of the loop over the lines of the follow log.
FollowStep(acc, line) ==
    IF line = <<>> THEN acc
    ELSE LET parts == Split(line, "|")
             date_str == parts[1]
             author == IF Len(parts) > 1 THEN parts[2] ELSE <<>>
             a1 == [acc EXCEPT !.commits_1y = @ + 1]
             a2 == IF IsNone(a1.last_commit_date)
                   THEN [a1 EXCEPT !.last_commit_date = Some(date_str)] ELSE a1
             a3 == IF author # <<>>
                   THEN [a2 EXCEPT !.contributors_set = @ \cup {author}] ELSE a2
         IN IF IsIso(date_str) /\ Timestamp(date_str) >= three_months_ago
            THEN [a3 EXCEPT !.commits_3m = @ + 1] ELSE a3

RECURSIVE FollowPass(_, _)
FollowPass(acc, lines) ==
    IF lines = <<>> THEN acc ELSE FollowPass(FollowStep(acc, Head(lines)), Tail(lines))

\* None when the command fails or prints nothing.
get_file_stats_with_follow(result) ==
    IF result.returncode # 0 \/ (\A i \in 1..Len(result.stdout) : result.stdout[i] = <<>>)
    THEN None
    ELSE Some(FollowPass(NewStats, result.stdout))

\* ---- the second half of get_file_stats ----
\* stats[file_path] after the follow query of a renamed file.
MergeFollow_KeepsBulk3m(bulk, follow_stats) ==
    IF IsNone(follow_stats) THEN bulk
    ELSE [Get(follow_stats) EXCEPT !.commits_3m = bulk.commits_3m,
                                   !.contributors_set = @ \cup bulk.contributors_set]
MergeFollow(bulk, follow_stats) ==
    IF IsNone(follow_stats) THEN bulk
    ELSE [Get(follow_stats) EXCEPT !.contributors_set = @ \cup bulk.contributors_set]

\* Python's order of strings.
RECURSIVE StrLess(_, _)
StrLess(a, b) ==
    IF b = <<>> THEN FALSE
    ELSE IF a = <<>> THEN TRUE
    ELSE IF a[1] # b[1] THEN CharRank[a[1]] < CharRank[b[1]]
    ELSE StrLess(Tail(a), Tail(b))

\* sorted(list(contributors_set))
RECURSIVE sorted(_)
sorted(S) ==
    IF S = {} THEN <<>>
    ELSE LET m == CHOOSE x \in S : \A y \in S \ {x} : StrLess(x, y)
         IN <<m>> \o sorted(S \ {m})

FinalFormat(file_stats) ==
    LET contributors_list == sorted(file_stats.contributors_set)
    IN [last_commit_date |-> file_stats.last_commit_date,
        commits_3m |-> file_stats.commits_3m,
        commits_1y |-> file_stats.commits_1y,
        contributors |-> [count |-> Len(contributors_list),
                          names |-> contributors_list]]

\* The exit codes of git: success, or "fatal".
ExitCodes == {0, 128}
MaxCommits == 2

\* The run of get_file_stats on a history: the bulk answer, the statistics
\* after the bulk pass, the answers of the follow queries and what they parse
\* to, and the mapping returned.
Run(commits, bulk_rc, follow_rc) ==
    LET answer == BulkAnswer(commits, bulk_rc)
        s == IF answer.returncode # 0 THEN ParseStart
             ELSE BulkPass(ParseStart, answer.stdout)
        follow == [q \in s.renamed_files |->
                     get_file_stats_with_follow(FollowAnswer(commits, q, follow_rc))]
        stats == [q \in DOMAIN s.stats |->
                     IF q \in s.renamed_files
                     THEN MergeFollow(s.stats[q], follow[q]) ELSE s.stats[q]]
    IN [result |-> IF answer.returncode # 0 THEN <<>>
                   ELSE [q \in DOMAIN stats |-> FinalFormat(stats[q])],
        renamed_files |-> s.renamed_files,
        bulk |-> s.stats,
        bulk_rc |-> bulk_rc,
        follow_rc |-> IF s.renamed_files = {} THEN 0 ELSE follow_rc,
        follow |-> follow]

NoRun ==
    [result |-> <<>>,
     renamed_files |-> {},
     bulk |-> <<>>,
     bulk_rc |-> 0,
     follow_rc |-> 0,
     follow |-> <<>>]

\* A commit lands in the repository.
GitCommit(date, author, cs) ==
    /\ gs.pc = "history"
    /\ Len(gs.commits) < MaxCommits
    /\ \A c \in cs : Possible(c, gs.exists)
    /\ gs' = [gs EXCEPT
                !.commits = Append(@, [date |-> date, author |-> author,
                                       changes |-> SetToSeq(cs)]),
                !.exists = ExistsAfter(@, cs)]
    /\ UNCHANGED OthersOfGs

\* get_file_stats(repo_path)
GetFileStats(bulk_rc, follow_rc) ==
    /\ gs.pc = "history"
    /\ gs' = [gs EXCEPT !.pc = "done", !.run = Run(gs.commits, bulk_rc, follow_rc)]
    /\ UNCHANGED OthersOfGs

InitStats ==
    /\ \E exists \in SUBSET Files :
          gs = [pc |-> "history", commits |-> <<>>, exists |-> exists, run |-> NoRun]
    /\ stale = Off /\ pool = Off /\ disc = Off /\ asm = Off
    /\ orch = Off /\ cpl = Off /\ idx = Off /\ batch = Off

NextStats ==
    \/ \E date \in DateTokens, author \in AuthorNames :
          \E cs \in ChangeSets : GitCommit(date, author, cs)
    \/ \E bulk_rc \in ExitCodes, follow_rc \in ExitCodes : GetFileStats(bulk_rc, follow_rc)

SpecStats == InitStats /\ [][NextStats]_vars

(***************************************************************************)
(* Properties of get_file_stats                                            *)
(***************************************************************************)
\* get_file_stats has returned the statistics of a log that git printed.
StatsReturned == gs.pc = "done" /\ gs.run.bulk_rc = 0

\* C1: for every file path of the mapping get_file_stats returns, from the
\* bulk pass or from the rename-following replacement,
\* commits_3m <= commits_1y.
C1_ThreeMonthsWithinYear ==
    gs.pc = "done" =>
        \A q \in DOMAIN gs.run.result :
            gs.run.result[q].commits_3m <= gs.run.result[q].commits_1y

\* An entry replaced by a follow query and an entry of the bulk pass, both
\* with commits inside the three months, the first also with older ones.
C1_Witness ==
    /\ StatsReturned
    /\ \E q \in gs.run.renamed_files :
          /\ ~IsNone(gs.run.follow[q])
          /\ gs.run.result[q].commits_3m > 0
          /\ gs.run.result[q].commits_3m < gs.run.result[q].commits_1y
    /\ \E q \in DOMAIN gs.run.result \ gs.run.renamed_files :
          gs.run.result[q].commits_3m > 0

\* The history read directly: the commits (by position, oldest first) that
\* list file f with status A, M or D, and those of them whose author date
\* is a date not older than 90 days.
Listing(f) ==
    {i \in 1..Len(gs.commits) :
        \E k \in 1..Len(gs.commits[i].changes) :
            /\ gs.commits[i].changes[k].st \in {"A", "M", "D"}
            /\ gs.commits[i].changes[k].path = f}
Recent(I) ==
    {i \in I : /\ gs.commits[i].date \in DOMAIN IsoDays
               /\ StatNow - IsoDays[gs.commits[i].date] <= NinetyDays}
RenameTargets ==
    {f \in Files : \E i \in 1..Len(gs.commits) :
        \E k \in 1..Len(gs.commits[i].changes) :
            /\ gs.commits[i].changes[k].st = RenameStatus
            /\ gs.commits[i].changes[k].path = f}
Newest(I) == CHOOSE i \in I : \A j \in I : j <= i

\* C7: a file that is never the target of a rename has an entry exactly when
\* some commit of the window lists it with status A, M or D; its commits_1y
\* is the number of those commits, its commits_3m the number of them whose
\* author date is at most 90 days old, and its last_commit_date the date of
\* the newest of them.
C7_CountsOfPlainFile ==
    StatsReturned =>
        \A f \in Files \ RenameTargets :
            /\ (GitQuote(f) \in {q[1] : q \in DOMAIN gs.run.result}) <=> Listing(f) # {}
            /\ Listing(f) # {} =>
                  LET e == gs.run.result[<<GitQuote(f)>>]
                  IN /\ e.commits_1y = Cardinality(Listing(f))
                     /\ e.commits_3m = Cardinality(Recent(Listing(f)))
                     /\ e.last_commit_date = Some(<<gs.commits[Newest(Listing(f))].date>>)

\* MaxCommits commits list one file with A, M or D, all of them inside the
\* three months, and both counters equal that number.
C7_Witness ==
    /\ StatsReturned
    /\ \E f \in Files \ RenameTargets :
          /\ Cardinality(Listing(f)) = MaxCommits
          /\ Recent(Listing(f)) = Listing(f)
          /\ gs.run.result[<<GitQuote(f)>>].commits_1y = MaxCommits
          /\ gs.run.result[<<GitQuote(f)>>].commits_3m = MaxCommits

\* C5: for every path the bulk pass flags as the new name of a rename, the
\* final commits_1y, commits_3m and last_commit_date are those of the
\* rename-following query of that path (replacing, not added to, the values
\* of the bulk pass) and the final contributor names are the union of the
\* names of both passes.
C5_RenamedPathTakesFollowValues ==
    StatsReturned =>
        \A q \in gs.run.renamed_files :
            /\ ~IsNone(gs.run.follow[q])
            /\ gs.run.result[q].commits_1y = Get(gs.run.follow[q]).commits_1y
            /\ gs.run.result[q].commits_3m = Get(gs.run.follow[q]).commits_3m
            /\ gs.run.result[q].last_commit_date = Get(gs.run.follow[q]).last_commit_date
            /\ {gs.run.result[q].contributors.names[i] :
                   i \in 1..Len(gs.run.result[q].contributors.names)}
                 = gs.run.bulk[q].contributors_set
                      \cup Get(gs.run.follow[q]).contributors_set

\* C6: when git answers both commands, a file renamed inside the window is
\* reported under its new name with a commits_1y that counts all the commits
\* of the file, those before the rename under the old name and those since.
C6_RenamedFileKeepsAllCommits ==
    (StatsReturned /\ gs.run.follow_rc = 0) =>
        \A f \in RenameTargets :
            /\ <<GitQuote(f)>> \in DOMAIN gs.run.result
            /\ gs.run.result[<<GitQuote(f)>>].commits_1y = Len(FollowLog(gs.commits, f))

\* The author names of the commits get_file_stats attributes to a path: the
\* commits whose status line of the bulk log names it and, for a path it has
\* followed, the commits of the follow log.
BulkAuthors(f) ==
    {gs.commits[i].author : i \in Listing(f) \cup
        {j \in 1..Len(gs.commits) :
            \E k \in 1..Len(gs.commits[j].changes) :
                /\ gs.commits[j].changes[k].st = RenameStatus
                /\ gs.commits[j].changes[k].path = f}}
FollowAuthors(f) ==
    IF <<GitQuote(f)>> \in gs.run.renamed_files /\ ~IsNone(gs.run.follow[<<GitQuote(f)>>])
    THEN {gs.commits[i].author :
             i \in {j \in 1..Len(gs.commits) :
                       \E n \in 1..Len(FollowLog(gs.commits, f)) :
                           FollowLog(gs.commits, f)[n] = FollowLine(gs.commits[j])}}
    ELSE {}

\* C8: for every file of the result, contributors.names is sorted, has no
\* duplicates and holds exactly the author names of the commits attributed
\* to the file, and contributors.count is its length.
C8_NamesAreTheAuthors ==
    StatsReturned =>
        \A f \in Files :
            <<GitQuote(f)>> \in DOMAIN gs.run.result =>
                LET c == gs.run.result[<<GitQuote(f)>>].contributors
                IN /\ c.count = Len(c.names)
                   /\ \A i \in 1..Len(c.names) : \A j \in 1..Len(c.names) :
                         i < j => StrLess(c.names[i], c.names[j])
                   /\ {c.names[i] : i \in 1..Len(c.names)}
                         = BulkAuthors(f) \cup FollowAuthors(f)

(***************************************************************************)
(* analyze_single_repo, analyze_repos (analysis.py) and                    *)
(* _run_single_analysis (cli.py)                                           *)
(*                                                                         *)
(* The line counter cloc and git are the environment.  A file of cloc's    *)
(* output is keyed by a path that lies inside the repository or not.       *)
(***************************************************************************)
\* The keys of cloc's JSON: the two reserved ones and the files, a file at
\* the repository's top, one in a subdirectory and one outside of it.
HeaderKey == [kind |-> "header", inside |-> TRUE, rel |-> <<>>]
SumKey == [kind |-> "SUM", inside |-> TRUE, rel |-> <<>>]
FileKey(inside, rel) == [kind |-> "file", inside |-> inside, rel |-> rel]
ClocFileKeys == {FileKey(TRUE, <<1>>), FileKey(TRUE, <<2, 1>>), FileKey(FALSE, <<1>>)}

\* cloc's entry of a file: its lines of code and its language.
ClocEntry(key) ==
    [language |-> IF Len(key.rel) = 1 THEN "Python" ELSE "Go",
     key |-> key,
     code |-> IF ~key.inside THEN 5 ELSE IF Len(key.rel) = 1 THEN 3 ELSE 2]

\* cloc's JSON for a set of files: header, the files, SUM.
ClocData(keys) ==
    <<[language |-> "", key |-> HeaderKey, code |-> 0]>>
       \o [i \in 1..Len(SetToSeq(keys)) |-> ClocEntry(SetToSeq(keys)[i])]
       \o <<[language |-> "", key |-> SumKey, code |-> 0]>>

\* What run_cloc does: it raises FileNotFoundError when cloc is not
\* installed and RuntimeError when cloc prints nothing or no JSON, and
\* returns the parsed JSON otherwise.
ClocAnswers(installed) ==
    IF ~installed THEN {[kind |-> "FileNotFoundError", data |-> <<>>]}
    ELSE {[kind |-> "RuntimeError", data |-> <<>>]}
            \cup {[kind |-> "data", data |-> <<[language |-> "", key |-> HeaderKey, code |-> 0]>>]}
            \cup {[kind |-> "data", data |-> ClocData(keys)] : keys \in SUBSET ClocFileKeys \ {{}}}

\* What get_file_stats does in a repository: it raises when git cannot be
\* run, and returns a mapping otherwise: empty, or with the statistics of
\* the top-level file, or of all the files inside the repository.
GitAnswers ==
    {[kind |-> "raises", stats |-> <<>>],
     [kind |-> "stats", stats |-> <<>>],
     [kind |-> "stats", stats |-> [q \in {<<1>>} |-> SomeStats]],
     [kind |-> "stats", stats |-> [q \in {<<1>>, <<2, 1>>} |-> SomeStats]]}

\* get_file_stats is called only after cloc has listed a file.
NotAsked == [kind |-> "not asked", stats |-> <<>>]
GitAnswersAfter(cloc) ==
    IF cloc.kind = "data" /\ \E i \in 1..Len(cloc.data) : cloc.data[i].key.kind = "file"
    THEN GitAnswers ELSE {NotAsked}

\* build_directory_tree(files, base_path): a file outside the base is
\* dropped; the directories are those on the way to a file.
TreeFile(entry) ==
    [FileEntry(Parent(entry.key.rel), entry.key.rel[Len(entry.key.rel)], entry.code)
        EXCEPT !.language = entry.language]

build_directory_tree(files) ==
    LET kept == SelectSeq(files, LAMBDA e : e.key.inside)
    IN [dirs |-> UNION {{SubSeq(kept[i].key.rel, 1, k) :
                            k \in 1..(Len(kept[i].key.rel) - 1)} : i \in 1..Len(kept)},
        files |-> [i \in 1..Len(kept) |-> TreeFile(kept[i])]]

\* A file node of the repository's top level (analysis.py 249-274).
RootFileNode(file, path_prefix, git_stats) ==
    LET has == file.path \in DOMAIN git_stats
        stats == git_stats[file.path]
    IN [path |-> JoinPath(path_prefix, file.name),
        name |-> file.name,
        value |-> file.value,
        language |-> file.language,
        extension |-> file.extension,
        contributors |-> IF has THEN Some(stats.contributors) ELSE None,
        type |-> "file",
        commits |-> IF has
                    THEN Some([last_commit_date |-> stats.last_commit_date,
                               last_3_months |-> stats.commits_3m,
                               last_year |-> stats.commits_1y])
                    ELSE Some([last_commit_date |-> None,
                               last_3_months |-> 0,
                               last_year |-> 0])]

\* The statistics analyze_single_repo hands to tree_to_schema.
StatsArgument_NoneWhenEmpty(git_stats) ==
    IF DOMAIN git_stats = {} THEN None ELSE Some(git_stats)
StatsArgument(git_stats) == Some(git_stats)

NoResult == [files |-> None, repo_node |-> None]

\* The children of the repository node: the nodes of the top-level
\* directories by name, then the top-level files by name
\* (analysis.py 241-274).
RepoChildren(repo_tree, path_prefix, git_stats) ==
    LET dirnames == SortedNames({d[1] : d \in SubDirs(repo_tree.dirs, <<>>)})
        dirnodes == [i \in 1..Len(dirnames) |->
                        tree_to_schema(repo_tree, <<dirnames[i]>>, dirnames[i],
                                       path_prefix, StatsArgument(git_stats))]
        rootfiles == SortByName(FilesOf(repo_tree, <<>>))
        filenodes == [i \in 1..Len(rootfiles) |->
                         RootFileNode(rootfiles[i], path_prefix, git_stats)]
    IN KeptChildren(dirnodes) \o filenodes

\* analyze_single_repo(repo_path, path_obj) with the answers of cloc and
\* git: (repo_node, files), or (None, None) on any exception.
analyze_single_repo(repo_path, path_obj, cloc, git) ==
    LET repo_name == RepoName(repo_path)
        files == SelectSeq(cloc.data, LAMBDA e : e.key.kind \notin {"header", "SUM"})
        repo_tree == build_directory_tree(files)
        git_stats == git.stats
        is_root_repo == repo_path = path_obj
        path_prefix == IF is_root_repo THEN <<>> ELSE <<repo_name>>
        children == RepoChildren(repo_tree, path_prefix, git_stats)
        repo_node == [path |-> IF path_prefix # <<>> THEN path_prefix ELSE <<repo_name>>,
                      name |-> repo_name,
                      type |-> "repository",
                      children |-> children]
    IN IF cloc.kind # "data" THEN NoResult
       ELSE IF files = <<>> THEN NoResult
       ELSE IF git.kind = "raises" THEN NoResult
       ELSE [files |-> Some(files),
             repo_node |-> IF children # <<>> THEN Some(repo_node) ELSE None]

\* ---- analyze_repos ----
\* languages[lang] = languages.get(lang, 0) + code_lines, the dict kept as
\* the list of its items in insertion order.
RECURSIVE AddLanguage(_, _, _)
AddLanguage(languages, lang, code_lines) ==
    IF languages = <<>> THEN <<[lines |-> code_lines, lang |-> lang]>>
    ELSE IF Head(languages).lang = lang
    THEN <<[lines |-> Head(languages).lines + code_lines, lang |-> lang]>> \o Tail(languages)
    ELSE <<Head(languages)>> \o AddLanguage(Tail(languages), lang, code_lines)

\* The loop over files.values() (analysis.py 356-361).
RECURSIVE FoldFiles(_, _)
FoldFiles(totals, files) ==
    IF files = <<>> THEN totals
    ELSE FoldFiles([languages |-> AddLanguage(totals.languages, Head(files).language,
                                              Head(files).code),
                    total_files |-> totals.total_files + 1,
                    total_lines |-> totals.total_lines + Head(files).code],
                   Tail(files))

\* sorted(languages.items(), key=lines, reverse=True): stable.
RECURSIVE InsertByLines(_, _)
InsertByLines(done, x) ==
    IF done = <<>> THEN <<x>>
    ELSE IF Head(done).lines >= x.lines THEN <<Head(done)>> \o InsertByLines(Tail(done), x)
    ELSE <<x>> \o done

RECURSIVE SortByLines(_)
SortByLines(items) ==
    IF items = <<>> THEN <<>>
    ELSE InsertByLines(SortByLines(SubSeq(items, 1, Len(items) - 1)), items[Len(items)])

\* The messages of the exceptions.
PathMissing == "Path does not exist"
NoReposFound == "No Git repositories found"
NoneAnalyzed == "No repositories were successfully analyzed"
ClocMissing == "cloc not found. Install with: brew install cloc"
FetchTimeout == "Command timed out after 30 seconds"

\* The name of the analysis set, and the times of this run and of an
\* earlier one.
SetName == "myset"
NowStamp == "2026-11-02T10:00:00Z"
EarlierStamp == "2026-11-01T10:00:00Z"

\* The dict analyze_repos returns (analysis.py 370-385).
AnalysisJson(name, root_path, generated_at, totals, repo_nodes) ==
    [tree |-> [name |-> name, type |-> "analysis_set", children |-> repo_nodes],
     stats |-> [languages |-> SortByLines(totals.languages),
                total_files |-> totals.total_files,
                total_lines |-> totals.total_lines,
                total_repos |-> Len(repo_nodes)],
     root_path |-> root_path,
     generated_at |-> generated_at,
     analysis_set |-> name]

\* A report an earlier run has left in ~/.aina/analysis/<name>.json.
EarlierReport ==
    AnalysisJson(SetName, RootPath, EarlierStamp,
                 [languages |-> <<>>, total_files |-> 0, total_lines |-> 0], <<>>)

\* _run_single_analysis returns (False, message).
Failed(o, message) ==
    [o EXCEPT !.pc = "done", !.result = Some([data |-> message, success |-> FALSE])]

\* One round of the loop over the repositories, r being what
\* analyze_single_repo has returned (analysis.py 347-365).
AfterRepo_CountsSkipped(o, r) ==
    LET totals == IF ~IsNone(r.files)
                  THEN FoldFiles(o.totals, Get(r.files)) ELSE o.totals
    IN [o EXCEPT !.i = @ + 1, !.returned = Append(@, r), !.totals = totals,
                 !.repo_nodes = IF ~IsNone(r.repo_node) /\ ~IsNone(r.files)
                                THEN Append(@, Get(r.repo_node)) ELSE @]
AfterRepo_StopsOnFailure(o, r) ==
    IF ~IsNone(r.repo_node) /\ ~IsNone(r.files) /\ Get(r.files) # <<>>
    THEN [o EXCEPT !.i = @ + 1, !.returned = Append(@, r),
                   !.repo_nodes = Append(@, Get(r.repo_node)),
                   !.totals = FoldFiles(@, Get(r.files))]
    ELSE [o EXCEPT !.i = Len(o.repos) + 1, !.returned = Append(@, r)]
AfterRepo(o, r) ==
    IF ~IsNone(r.repo_node) /\ ~IsNone(r.files) /\ Get(r.files) # <<>>
    THEN [o EXCEPT !.i = @ + 1, !.returned = Append(@, r),
                   !.repo_nodes = Append(@, Get(r.repo_node)),
                   !.totals = FoldFiles(@, Get(r.files))]
    ELSE [o EXCEPT !.i = @ + 1, !.returned = Append(@, r)]

\* The end of analyze_repos and of _run_single_analysis: the error of an
\* empty result, or the report, written to the file of the set's name.
AfterLoop_WritesFirst(o) ==
    LET analysis_json == AnalysisJson(SetName, RootPath, NowStamp, o.totals, o.repo_nodes)
    IN IF o.repo_nodes = <<>>
       THEN [Failed(o, NoneAnalyzed) EXCEPT !.report_file = Some(analysis_json)]
       ELSE [o EXCEPT !.pc = "done", !.report_file = Some(analysis_json),
                      !.result = Some([data |-> analysis_json.stats, success |-> TRUE])]
AfterLoop(o) ==
    LET analysis_json == AnalysisJson(SetName, RootPath, NowStamp, o.totals, o.repo_nodes)
    IN IF o.repo_nodes = <<>> THEN Failed(o, NoneAnalyzed)
       ELSE [o EXCEPT !.pc = "done", !.report_file = Some(analysis_json),
                      !.result = Some([data |-> analysis_json.stats, success |-> TRUE])]

\* path_obj.exists() (analysis.py 314-317)
CheckPath ==
    /\ orch.pc = "start"
    /\ orch' = IF orch.root_exists THEN [orch EXCEPT !.pc = "discover"]
               ELSE Failed(orch, PathMissing)
    /\ UNCHANGED OthersOfOrch

\* The lists discover_repos may return to analyze_repos: sorted, of the
\* root and of children of the root; which names the children carry makes
\* no difference to the analysis, two names are enough.
DiscoveredLists ==
    {l \in RepoLists :
        \A k \in 1..Len(l) : l[k] \in {RootPath, RootPath \o <<1>>, RootPath \o <<2>>}}

\* repos = discover_repos(analysis_set_path) (analysis.py 319-324)
Discover_ChecksFirst(repos) ==
    /\ orch.pc = "discover"
    /\ orch' = IF repos = <<>>
               THEN [Failed(orch, NoReposFound) EXCEPT !.checked = @ + 1]
               ELSE [orch EXCEPT !.pc = "staleness", !.repos = repos]
    /\ UNCHANGED OthersOfOrch
Discover(repos) ==
    /\ orch.pc = "discover"
    /\ orch' = IF repos = <<>> THEN Failed(orch, NoReposFound)
               ELSE [orch EXCEPT !.pc = "staleness", !.repos = repos]
    /\ UNCHANGED OthersOfOrch

\* The remote_status of the repositories as check_staleness returns them.
StalenessInfos(repos) == [1..Len(repos) -> {"up_to_date", "behind", "fetch_failed"}]

\* behind_count = sum(1 for info in staleness_infos if info['remote_status']
\* == 'behind')
BehindCount(staleness_infos) ==
    Cardinality({k \in 1..Len(staleness_infos) : staleness_infos[k] = "behind"})

\* How often on_staleness_warning is called (analysis.py 337-339).
Warnings_PerRepository(behind_count) == behind_count
Warnings(behind_count) == IF behind_count > 0 THEN 1 ELSE 0

\* check_staleness and the warning (analysis.py 328-339): the checks return
\* and the callback, if it is called, returns too, and the run goes on; or
\* a fetch times out and the exception leaves analyze_repos; or the user
\* answers the prompt of handle_staleness with Ctrl-C and SystemExit ends
\* the program.
Staleness(staleness_infos, outcome) ==
    /\ orch.pc = "staleness"
    /\ staleness_infos \in StalenessInfos(orch.repos)
    /\ outcome = "abort" => BehindCount(staleness_infos) > 0
    /\ LET checked == [orch EXCEPT !.checked = @ + 1,
                                   !.behind_count = BehindCount(staleness_infos),
                                   !.warned = @ + Warnings(BehindCount(staleness_infos))]
       IN orch' = CASE outcome = "continue" -> [checked EXCEPT !.pc = "loop"]
                    [] outcome = "timeout" ->
                          [Failed(orch, FetchTimeout) EXCEPT !.checked = @ + 1]
                    [] OTHER -> [checked EXCEPT !.pc = "exit"]
    /\ UNCHANGED OthersOfOrch

\* One round of the loop: analyze_single_repo on the next repository.
AnalyzeRepo(cloc, git) ==
    /\ orch.pc = "loop"
    /\ orch.i <= Len(orch.repos)
    /\ cloc \in ClocAnswers(orch.cloc_installed)
    /\ git \in GitAnswersAfter(cloc)
    /\ orch' = [AfterRepo(orch, analyze_single_repo(orch.repos[orch.i], RootPath,
                                                     cloc, git))
                   EXCEPT !.answers = Append(@, [cloc |-> cloc, git |-> git])]
    /\ UNCHANGED OthersOfOrch

\* After the loop.
Finish ==
    /\ orch.pc = "loop"
    /\ orch.i > Len(orch.repos)
    /\ orch' = AfterLoop(orch)
    /\ UNCHANGED OthersOfOrch

InitOrch ==
    /\ \E root_exists \in BOOLEAN, cloc_installed \in BOOLEAN,
          report_file \in {None, Some(EarlierReport)} :
          orch = [pc |-> "start",
                  i |-> 1,
                  repos |-> <<>>,
                  result |-> None,
                  totals |-> [languages |-> <<>>, total_files |-> 0, total_lines |-> 0],
                  repo_nodes |-> <<>>,
                  returned |-> <<>>,
                  report_file |-> report_file,
                  root_exists |-> root_exists,
                  checked |-> 0,
                  behind_count |-> 0,
                  warned |-> 0,
                  cloc_installed |-> cloc_installed,
                  answers |-> <<>>,
                  earlier |-> report_file]
    /\ stale = Off /\ pool = Off /\ disc = Off /\ asm = Off /\ gs = Off
    /\ cpl = Off /\ idx = Off /\ batch = Off

NextOrch ==
    \/ CheckPath
    \/ \E repos \in DiscoveredLists : Discover(repos)
    \/ \E outcome \in {"continue", "timeout", "abort"} :
       \E staleness_infos \in StalenessInfos(orch.repos) :
          Staleness(staleness_infos, outcome)
    \/ \E cloc \in ClocAnswers(TRUE) \cup ClocAnswers(FALSE),
          git \in GitAnswers \cup {NotAsked} :
          AnalyzeRepo(cloc, git)
    \/ Finish

SpecOrch == InitOrch /\ [][NextOrch]_vars

(***************************************************************************)
(* Properties of analyze_repos and _run_single_analysis                    *)
(***************************************************************************)
\* _run_single_analysis has returned (True, stats).
Succeeded == orch.pc = "done" /\ Get(orch.result).success
\* The rounds of the loop whose repository went into the tree.
Usable == {k \in 1..Len(orch.returned) : ~IsNone(orch.returned[k].repo_node)}

RECURSIVE SumUpTo(_, _)
SumUpTo(f, n) == IF n = 0 THEN 0 ELSE f[n] + SumUpTo(f, n - 1)

RECURSIVE SumCode(_)
SumCode(files) == IF files = <<>> THEN 0 ELSE Head(files).code + SumCode(Tail(files))

\* The files cloc has listed for the repository of round k, without the
\* reserved keys.
ClocFiles(k) ==
    SelectSeq(orch.answers[k].cloc.data, LAMBDA e : e.key.kind = "file")

\* C11: in the report of analyze_repos, stats.total_repos is the number of
\* repository nodes under the tree root, and stats.total_files and
\* stats.total_lines are the sums of the file counts and of the code lines
\* of exactly the repositories that have a node; a failed or skipped
\* repository adds nothing.
C11_TotalsOverAnalyzedRepos ==
    Succeeded =>
        LET report == Get(orch.report_file)
            n == Len(orch.returned)
        IN /\ report.stats.total_repos = Len(report.tree.children)
           /\ Len(report.tree.children) = Cardinality(Usable)
           /\ report.stats.total_files =
                 SumUpTo([k \in 1..n |-> IF k \in Usable THEN Len(ClocFiles(k)) ELSE 0], n)
           /\ report.stats.total_lines =
                 SumUpTo([k \in 1..n |-> IF k \in Usable THEN SumCode(ClocFiles(k)) ELSE 0], n)

\* A repository with several files is in the report and another one, for
\* which cloc listed files too, is not.
C11_Witness ==
    /\ Succeeded
    /\ \E k \in Usable : Len(ClocFiles(k)) > 1
    /\ \E k \in 1..Len(orch.returned) : k \notin Usable /\ ClocFiles(k) # <<>>
    /\ Get(orch.report_file).stats.total_files > 1

\* The run has gone through the loop over the repositories and returned.
LoopRan ==
    /\ orch.pc = "done"
    /\ Get(orch.result).success \/ Get(orch.result).data = NoneAnalyzed

\* The nodes of the usable rounds, in the order of the rounds.
RECURSIVE NodesUpTo(_)
NodesUpTo(n) ==
    IF n = 0 THEN <<>>
    ELSE NodesUpTo(n - 1)
            \o (IF n \in Usable THEN <<Get(orch.returned[n].repo_node)>> ELSE <<>>)

C13_NoReportOnFailure ==
    (orch.pc # "off" /\ ~Succeeded) => orch.report_file = orch.earlier

\* The run has failed because no repository was analyzed, and the report
\* of an earlier run is still in place.
C13_Witness ==
    /\ orch.pc = "done"
    /\ ~Get(orch.result).success
    /\ Get(orch.result).data = NoneAnalyzed
    /\ orch.earlier = Some(EarlierReport)
    /\ orch.report_file = Some(EarlierReport)

\* C14: when cloc is not installed and the run gets to call it, the run
\* fails with the error that tells how to install cloc.
C14_ToolMissingSurfaced ==
    (orch.pc = "done" /\ ~orch.cloc_installed /\ orch.returned # <<>>) =>
        /\ ~Get(orch.result).success
        /\ Get(orch.result).data = ClocMissing

\* C15: every report analyze_repos returns has a 'coupling' field with a
\* 'threshold' and a list 'pairs' of pairs with two 'files' and a 'count'.
C15_ReportHasCoupling ==
    Succeeded =>
        /\ "coupling" \in DOMAIN Get(orch.report_file)
        /\ {"threshold", "pairs"} \subseteq DOMAIN Get(orch.report_file).coupling
        /\ \A i \in 1..Len(Get(orch.report_file).coupling.pairs) :
              /\ Len(Get(orch.report_file).coupling.pairs[i].files) = 2
              /\ Get(orch.report_file).coupling.pairs[i].count \in Nat

\* The file nodes below a node of the tree.
RECURSIVE FileNodesOf(_)
FileNodesOf(node) ==
    IF node.type = "file" THEN {node}
    ELSE UNION {FileNodesOf(node.children[i]) : i \in 1..Len(node.children)}

\* The path of a file node relative to its repository.
RelativePath(repo_path, node) ==
    IF repo_path = RootPath THEN node.path ELSE Tail(node.path)

\* C18: every file node of a report has a 'commits' object: the statistics
\* of the file when the mapping of its repository has the file's relative
\* path, and 0, 0, null when it has not, also when the mapping is empty
\* because the history query failed.
C18_EveryFileHasCommits ==
    Succeeded =>
        \A k \in Usable :
            \A node \in FileNodesOf(Get(orch.returned[k].repo_node)) :
                LET git_stats == orch.answers[k].git.stats
                    rel == RelativePath(orch.repos[k], node)
                IN /\ ~IsNone(node.commits)
                   /\ rel \in DOMAIN git_stats =>
                         Get(node.commits) =
                            [last_commit_date |-> git_stats[rel].last_commit_date,
                             last_3_months |-> git_stats[rel].commits_3m,
                             last_year |-> git_stats[rel].commits_1y]
                   /\ rel \notin DOMAIN git_stats =>
                         Get(node.commits) =
                            [last_commit_date |-> None,
                             last_3_months |-> 0,
                             last_year |-> 0]

\* A report with a file in a subdirectory that has statistics, and with
\* files at the top and in a subdirectory of a repository whose mapping is
\* empty.
C18_Witness ==
    /\ Succeeded
    /\ \E k \in Usable :
          /\ <<2, 1>> \in DOMAIN orch.answers[k].git.stats
          /\ \E node \in FileNodesOf(Get(orch.returned[k].repo_node)) :
                RelativePath(orch.repos[k], node) = <<2, 1>>
    /\ \E k \in Usable :
          /\ DOMAIN orch.answers[k].git.stats = {}
          /\ Cardinality(FileNodesOf(Get(orch.returned[k].repo_node))) = 2

(***************************************************************************)
(* get_coupling_data (the Coupling Detector, specification section 4.3)    *)
(*                                                                         *)
(* The history is a list of commits, oldest first, each the set of files   *)
(* it touches; files are numbers.  A commit touches some of the files 1,   *)
(* 2 and, when it is a bulk change, the files 3, 4, ... as well.           *)
(***************************************************************************)
\* A commit that touches more files than this is skipped.
MaxCommitFiles == 50
\* How many commits a history has.
MaxCplCommits == 2

WatchedFiles == {1, 2}
BulkFiles == 3..(MaxCommitFiles + 1)
CommitFileSets == {w \cup b : w \in SUBSET WatchedFiles, b \in {{}, BulkFiles}}

\* The unordered pairs of a set of files, each as <<a, b>> with a < b.
PairsOf(files) == {pr \in files \X files : pr[1] < pr[2]}

\* Whether a commit is left out as a bulk change.
IsBulk_OneMore(files) == Cardinality(files) > MaxCommitFiles + 1
IsBulk(files) == Cardinality(files) > MaxCommitFiles

\* The log: newest commit first, bulk changes left out.
RECURSIVE KeptLog(_)
KeptLog(commits) ==
    IF commits = <<>> THEN <<>>
    ELSE (IF IsBulk(commits[Len(commits)]) THEN <<>> ELSE <<commits[Len(commits)]>>)
            \o KeptLog(SubSeq(commits, 1, Len(commits) - 1))

\* The counter of a pair after all commits, and the place in the log where
\* the pair is first seen.
PairCounter(log, pr) ==
    Cardinality({i \in 1..Len(log) : pr[1] \in log[i] /\ pr[2] \in log[i]})
FirstSeen(log, pr) ==
    CHOOSE i \in 1..Len(log) :
        /\ pr[1] \in log[i] /\ pr[2] \in log[i]
        /\ \A j \in 1..(i - 1) : ~(pr[1] \in log[j] /\ pr[2] \in log[j])

\* Whether a pair is emitted.
Emitted_Above(counter, threshold) == counter > threshold
Emitted(counter, threshold) == counter >= threshold

Least(S) == CHOOSE x \in S : \A y \in S : x <= y
Greatest(S) == CHOOSE x \in S : \A y \in S : y <= x

\* The pair that comes first: highest counter, then first seen, then the
\* order of the pairs within a commit.
FirstPair(log, cands) ==
    LET top == Greatest({PairCounter(log, pr) : pr \in cands})
        c1 == {pr \in cands : PairCounter(log, pr) = top}
        seen == Least({FirstSeen(log, pr) : pr \in c1})
        c2 == {pr \in c1 : FirstSeen(log, pr) = seen}
        a == Least({pr[1] : pr \in c2})
        b == Least({pr[2] : pr \in {q \in c2 : q[1] = a}})
    IN <<a, b>>

\* The first max_pairs pairs, sorted by counter descending.
RECURSIVE SortedPrefix(_, _, _)
SortedPrefix(log, cands, max_pairs) ==
    IF max_pairs = 0 \/ cands = {} THEN <<>>
    ELSE LET pr == FirstPair(log, cands)
         IN <<[count |-> PairCounter(log, pr), files |-> pr]>>
               \o SortedPrefix(log, cands \ {pr}, max_pairs - 1)

get_coupling_data(commits, threshold, max_pairs) ==
    LET log == KeptLog(commits)
        seen == UNION {PairsOf(log[i]) : i \in 1..Len(log)}
        cands == {pr \in seen : Emitted(PairCounter(log, pr), threshold)}
    IN [pairs |-> SortedPrefix(log, cands, max_pairs), threshold |-> threshold]

CplCommit(files) ==
    /\ cpl.pc = "history"
    /\ Len(cpl.commits) < MaxCplCommits
    /\ cpl' = [cpl EXCEPT !.commits = Append(@, files)]
    /\ UNCHANGED OthersOfCpl

GetCouplingData(threshold, max_pairs) ==
    /\ cpl.pc = "history"
    /\ cpl' = [cpl EXCEPT !.pc = "done", !.threshold = threshold,
                          !.max_pairs = max_pairs,
                          !.result = get_coupling_data(cpl.commits, threshold, max_pairs)]
    /\ UNCHANGED OthersOfCpl

InitCpl ==
    /\ cpl = [pc |-> "history",
              commits |-> <<>>,
              result |-> [pairs |-> <<>>, threshold |-> 0],
              threshold |-> 0,
              max_pairs |-> 0]
    /\ stale = Off /\ pool = Off /\ disc = Off /\ asm = Off /\ gs = Off
    /\ orch = Off /\ idx = Off /\ batch = Off

NextCpl ==
    \/ \E files \in CommitFileSets : CplCommit(files)
    \/ \E threshold \in 1..3, max_pairs \in {2, 5} :
          GetCouplingData(threshold, max_pairs)

SpecCpl == InitCpl /\ [][NextCpl]_vars

(***************************************************************************)
(* Properties of get_coupling_data                                         *)
(***************************************************************************)
\* The number of commits that touch both files of a pair, among the commits
\* that touch at most 50 files.
CoChanges(pr) ==
    Cardinality({i \in 1..Len(cpl.commits) :
                    /\ Cardinality(cpl.commits[i]) <= MaxCommitFiles
                    /\ pr[1] \in cpl.commits[i] /\ pr[2] \in cpl.commits[i]})
AllPairs == PairsOf(WatchedFiles \cup BulkFiles)
Reaching == {pr \in AllPairs : CoChanges(pr) >= cpl.threshold}
\* The places of the result that hold a pair, in either order of its files.
PlacesOf(pr) ==
    {i \in 1..Len(cpl.result.pairs) :
        cpl.result.pairs[i].files \in {pr, <<pr[2], pr[1]>>}}

\* C16: for every pair of files and every threshold, the result holds the
\* pair exactly once, with the number of commits that touch both files as
\* count, if that number is at least the threshold, and does not hold it
\* if the number is below the threshold.
C16_EveryPairAtThreshold ==
    cpl.pc = "done" =>
        \A pr \in AllPairs :
            IF CoChanges(pr) >= cpl.threshold
            THEN /\ Cardinality(PlacesOf(pr)) = 1
                 /\ \A i \in PlacesOf(pr) : cpl.result.pairs[i].count = CoChanges(pr)
            ELSE PlacesOf(pr) = {}

\* C16 as amended: no pair is returned twice or below the threshold, each
\* returned pair has its number of co-changing commits as count, all pairs
\* that reach the threshold are returned when they are at most max_pairs,
\* and otherwise max_pairs of them, none left out having a higher count
\* than one returned.
C16_PairsAtThresholdUpToMaxPairs ==
    cpl.pc = "done" =>
        LET pairs == cpl.result.pairs
            reaching == Cardinality(Reaching)
        IN /\ \A i \in 1..Len(pairs) :
                 /\ pairs[i].files \in Reaching
                 /\ pairs[i].count = CoChanges(pairs[i].files)
                 /\ PlacesOf(pairs[i].files) = {i}
           /\ Len(pairs) = IF reaching <= cpl.max_pairs THEN reaching ELSE cpl.max_pairs
           /\ \A pr \in AllPairs :
                 (CoChanges(pr) >= cpl.threshold /\ PlacesOf(pr) = {}) =>
                    \A i \in 1..Len(pairs) : CoChanges(pr) <= pairs[i].count

\* More pairs reach the threshold than max_pairs allows, a pair that has
\* changed together less often than the threshold is left out, and the
\* threshold is met exactly by a returned pair.
C16_Witness ==
    /\ cpl.pc = "done"
    /\ Cardinality(Reaching) > cpl.max_pairs
    /\ Len(cpl.result.pairs) = cpl.max_pairs
    /\ cpl.result.pairs[1].count = cpl.threshold
    /\ \E pr \in AllPairs : CoChanges(pr) = cpl.threshold - 1 /\ CoChanges(pr) > 0

\* The history without the commits that touch more than 50 files.
SmallCommits == SelectSeq(cpl.commits, LAMBDA c : Cardinality(c) <= MaxCommitFiles)

\* C17: a commit that touches more than 50 files adds nothing to any pair
\* counter: the result is the result for the history without such commits.
C17_LargeCommitAddsNothing ==
    (cpl.pc = "done" /\ SmallCommits # cpl.commits) =>
        cpl.result = get_coupling_data(SmallCommits, cpl.threshold, cpl.max_pairs)

\* A commit of more than 50 files and a smaller one whose pair is returned.
C17_Witness ==
    /\ cpl.pc = "done"
    /\ \E i \in 1..Len(cpl.commits) : Cardinality(cpl.commits[i]) > MaxCommitFiles
    /\ cpl.result.pairs # <<>>

(***************************************************************************)
(* generate_analysis_index (analysis.py): the index of the persisted       *)
(* reports in ~/.aina/analysis.                                            *)
(*                                                                         *)
(* A JSON value is a record of its type and its text.  A file of the       *)
(* directory is what opening and parsing it gives: a dict (of which only   *)
(* the three keys the index reads are kept, each absent or present), a     *)
(* list, text that is not JSON, or a file that cannot be opened.           *)
(***************************************************************************)
MaxRuns == 2

Str(s) == [v |-> s, type |-> "str"]
Number(s) == [v |-> s, type |-> "int"]
Null == [v |-> "", type |-> "null"]
Object(s) == [v |-> s, type |-> "object"]
EmptyObject == Object("{}")

IndexName == "index.json"
ReportNames == {"a.json", "b.json"}

\* Path.stem of the file names in use.
Stem(filename) ==
    CASE filename = "a.json" -> "a"
      [] filename = "b.json" -> "b"
      [] filename = IndexName -> "index"

Dict(analysis_set, generated_at, stats) ==
    [kind |-> "dict",
     stats |-> stats,
     generated_at |-> generated_at,
     analysis_set |-> analysis_set]
NotADict(kind) ==
    [kind |-> kind, stats |-> None, generated_at |-> None, analysis_set |-> None]

\* A report as _run_single_analysis writes it.
Report(name) ==
    Dict(Some(Str(name)), Some(Str("2026-01-01T00:00:00Z")),
         Some(Object("{total_files: 1}")))
GoodReports == {Report("a"), Report("b")}
\* Files that are not reports: a dict without the keys, a dict whose
\* analysis_set is a number or null, a JSON list, text that is not JSON,
\* and a file that cannot be opened.
BadReports ==
    {Dict(None, None, None),
     Dict(Some(Number("5")), Some(Str("2026-01-01T00:00:00Z")), Some(EmptyObject)),
     Dict(Some(Null), None, None),
     NotADict("list"), NotADict("invalid"), NotADict("unreadable")}
Contents == GoodReports \cup BadReports

\* What index.json holds: a dict with the keys analyses and updated_at.
IndexAsData == Dict(None, None, None)

\* dict.get(key, default)
DictGet(field, default) == IF IsNone(field) THEN default ELSE Get(field)

\* Lines 404-405: the index file is not read.
Skipped_Nothing(filename) == FALSE
Skipped(filename) == filename = IndexName

\* Lines 407-418: whether open, json.load and data.get go through.
Loads(data) == data.kind = "dict"

\* Lines 410-415.
IndexEntry(filename, data) ==
    [name |-> DictGet(data.analysis_set, Str(Stem(filename))),
     stats |-> DictGet(data.stats, EmptyObject),
     generated_at |-> DictGet(data.generated_at, Null),
     filename |-> filename]

\* Lines 402-418: the entries in the order of the directory listing.
RECURSIVE ReadAll(_, _)
ReadAll(listing, content) ==
    IF listing = <<>> THEN <<>>
    ELSE LET json_file == Head(listing)
             rest == ReadAll(Tail(listing), content)
         IN IF Skipped(json_file) THEN rest
            ELSE IF Loads(content[json_file])
                 THEN <<IndexEntry(json_file, content[json_file])>> \o rest
                 ELSE rest

\* Python's < on two values: defined for two strings and for two numbers.
Comparable(x, y) == x.type = y.type /\ x.type \in {"str", "int"}
StrRank(str) ==
    CASE str = "a" -> 1 [] str = "b" -> 2 [] str = "index" -> 3 [] OTHER -> 0
KeyLess(x, y) ==
    IF x.type = "str" THEN StrRank(x.v) < StrRank(y.v) ELSE FALSE

\* Line 420: list.sort raises TypeError when two keys cannot be compared.
SortRaises(analyses) ==
    \E i, j \in 1..Len(analyses) :
        i # j /\ ~Comparable(analyses[i].name, analyses[j].name)

\* Line 420: the sort is stable.
RECURSIVE InsertByKey(_, _)
InsertByKey(entry, sortedSeq) ==
    IF sortedSeq = <<>> THEN <<entry>>
    ELSE IF KeyLess(entry.name, Head(sortedSeq).name)
         THEN <<entry>> \o sortedSeq
         ELSE <<Head(sortedSeq)>> \o InsertByKey(entry, Tail(sortedSeq))
RECURSIVE SortByKey(_)
SortByKey(analyses) ==
    IF analyses = <<>> THEN <<>>
    ELSE InsertByKey(analyses[Len(analyses)],
                     SortByKey(SubSeq(analyses, 1, Len(analyses) - 1)))

\* The listing with one more file at any place: the order of glob is the
\* directory's.
WithFile(listing, filename) ==
    {SubSeq(listing, 1, k) \o <<filename>> \o SubSeq(listing, k + 1, Len(listing)) :
        k \in 0..Len(listing)}

InListing(listing, filename) == \E k \in 1..Len(listing) : listing[k] = filename

\* An index written before the reports came.
EarlierIndex == [analyses |-> <<>>, updated_at |-> 0]

\* A file appears in the directory: a report of _run_single_analysis
\* (cli.py:139-144) or any other *.json file.
PutFile(filename, data) ==
    /\ idx.pc = "files"
    /\ ~InListing(idx.listing, filename)
    /\ \E listing \in WithFile(idx.listing, filename) :
          idx' = [idx EXCEPT !.exists = TRUE, !.listing = listing,
                             !.content[filename] = Some(data)]
    /\ UNCHANGED OthersOfIdx

\* generate_analysis_index()
GenerateIndex ==
    /\ idx.pc \in {"files", "runs"}
    /\ idx.runs < MaxRuns
    /\ LET content == [f \in ReportNames \cup {IndexName} |->
                          IF f = IndexName THEN IndexAsData
                          ELSE DictGet(idx.content[f], NotADict("unreadable"))]
           analyses == ReadAll(idx.listing, content)
           ran == [idx EXCEPT !.pc = "runs", !.runs = @ + 1, !.clock = @ + 1,
                              !.before = idx.index]
       IN IF ~idx.exists
          THEN idx' = [ran EXCEPT !.returned = Some(TRUE)]
          ELSE IF SortRaises(analyses)
          THEN idx' = [ran EXCEPT !.returned = Some(FALSE)]
          ELSE \E listing \in IF InListing(idx.listing, IndexName)
                              THEN {idx.listing}
                              ELSE WithFile(idx.listing, IndexName) :
                  idx' = [ran EXCEPT !.returned = Some(TRUE),
                                     !.listing = listing,
                                     !.index = Some([analyses |-> SortByKey(analyses),
                                                     updated_at |-> idx.clock + 1])]
    /\ UNCHANGED OthersOfIdx

InitIdx ==
    /\ \E exists \in BOOLEAN, earlier \in BOOLEAN :
          /\ earlier => exists
          /\ idx = [pc |-> "files",
                    exists |-> exists,
                    returned |-> None,
                    listing |-> IF earlier THEN <<IndexName>> ELSE <<>>,
                    content |-> [f \in ReportNames |-> None],
                    runs |-> 0,
                    clock |-> 0,
                    before |-> None,
                    index |-> IF earlier THEN Some(EarlierIndex) ELSE None]
    /\ stale = Off /\ pool = Off /\ disc = Off /\ asm = Off /\ gs = Off
    /\ orch = Off /\ cpl = Off /\ batch = Off

NextIdx ==
    \/ \E filename \in ReportNames, data \in Contents : PutFile(filename, data)
    \/ GenerateIndex

SpecIdx == InitIdx /\ [][NextIdx]_vars

(***************************************************************************)
(* Properties of generate_analysis_index                                   *)
(***************************************************************************)
Rebuilt == idx.pc = "runs" /\ idx.exists
ListedFiles(index) ==
    {index.analyses[i].filename : i \in 1..Len(index.analyses)}
GoodFiles ==
    {f \in ReportNames : InListing(idx.listing, f) /\ idx.content[f] \subseteq GoodReports}
BadFiles ==
    {f \in ReportNames : InListing(idx.listing, f) /\ ~(idx.content[f] \subseteq GoodReports)}

\* C19: a second rebuild over unchanged reports leaves the analyses of the
\* index as the first rebuild left them (only updated_at may differ), and
\* no index ever lists index.json itself.
C19_RebuildIsIdempotent ==
    Rebuilt =>
        /\ idx.runs >= 2 =>
              /\ IsNone(idx.index) = IsNone(idx.before)
              /\ ~IsNone(idx.index) =>
                    Get(idx.index).analyses = Get(idx.before).analyses
        /\ ~IsNone(idx.index) => IndexName \notin ListedFiles(Get(idx.index))

\* Two rebuilds wrote the index, with two reports listed, at different times,
\* the second with index.json among the files of the directory.
C19_Witness ==
    /\ Rebuilt
    /\ idx.runs = 2
    /\ idx.returned = Some(TRUE)
    /\ ~IsNone(idx.before) /\ ~IsNone(idx.index)
    /\ Len(Get(idx.index).analyses) = 2
    /\ Get(idx.index).updated_at = 2 /\ Get(idx.before).updated_at = 1
    /\ InListing(idx.listing, IndexName)

\* C20: when some of the report files are unreadable or corrupt, the rebuild
\* succeeds and the index it writes lists exactly the other report files.
C20_BadReportsAreSkipped ==
    (Rebuilt /\ BadFiles # {}) =>
        /\ idx.returned = Some(TRUE)
        /\ ~IsNone(idx.index)
        /\ ListedFiles(Get(idx.index)) = GoodFiles

(***************************************************************************)
(* Further properties of get_repo_staleness_info                           *)
(***************************************************************************)
\* A difference of ticks truncated to whole days.
WholeDays(d) == IF d >= 0 THEN d \div DayTicks ELSE -((-d) \div DayTicks)

\* C24: once the last commit has been asked for, the age is the difference
\* between the current time and the commit's time truncated to whole days,
\* also for a commit dated after the current time, and a repository without
\* a commit has neither a date nor an age.
C24_AgeIsTruncatedDifference ==
    stale.pc \notin {"branch", "last_commit"} =>
        /\ IsNone(stale.info.last_commit_date) => IsNone(stale.info.last_commit_age_days)
        /\ \A d \in stale.info.last_commit_date :
              d.fmt = "iso" =>
                 stale.info.last_commit_age_days = Some(WholeDays(NowTick - d.t))

\* C30: a returned record has an error only with the status fetch_failed,
\* and with the status no_remote it has no count, no default branch and no
\* error.
C30_ErrorOnlyWhenFetchFailed ==
    stale.pc = "returned" =>
        /\ ~IsNone(stale.info.error) => stale.info.remote_status = "fetch_failed"
        /\ stale.info.remote_status = "no_remote" =>
              /\ IsNone(stale.info.commits_behind)
              /\ IsNone(stale.info.default_branch)
              /\ IsNone(stale.info.error)

\* A failed fetch with an error message, in a repository whose default
\* branch was detected.
C30_Witness ==
    /\ stale.pc = "returned"
    /\ stale.info.remote_status = "fetch_failed"
    /\ ~IsNone(stale.info.error)
    /\ ~IsNone(stale.info.default_branch)

\* The count an answer of rev-list --count carries, if it carries one.
CountOf(a) == Counted(None, a)

\* C23: with the status behind, commits_behind is the count relative to the
\* upstream of the current branch, or, when the branch has no upstream, the
\* count against the default branch, and stays null when no count was
\* obtained; with any other status commits_behind is null.
C23_CountAgainstUpstream ==
    stale.pc = "returned" =>
        /\ stale.info.remote_status # "behind" => IsNone(stale.info.commits_behind)
        /\ \A u \in stale.upstream :
              /\ stale.info.remote_status = "behind"
              /\ IF u.kind # "none"
                 THEN stale.info.commits_behind \in {None, Some(u.behind)}
                 ELSE stale.info.commits_behind \in
                         {None} \cup {CountOf(stale.counts[i]) :
                                         i \in {j \in 1..Len(stale.counts) :
                                                  j = 2 \/ stale.info.default_branch = stale.info.branch}}

(***************************************************************************)
(* Further properties of get_file_stats                                    *)
(***************************************************************************)
\* The commits whose status line of the bulk log names file f, as the path
\* of an A, M or D line or as the new name of a rename, and those of a set
\* of commits whose author date does not parse.
Attributed(f) ==
    Listing(f) \cup
        {i \in 1..Len(gs.commits) :
            \E k \in 1..Len(gs.commits[i].changes) :
                /\ gs.commits[i].changes[k].st = RenameStatus
                /\ gs.commits[i].changes[k].path = f}
Unparsed(I) == {i \in I : gs.commits[i].date \notin DOMAIN IsoDays}
\* The lines of a follow log whose date is a date not older than 90 days,
\* and those whose date does not parse.
RecentLines(log) ==
    {n \in 1..Len(log) : /\ log[n][1] \in DOMAIN IsoDays
                         /\ StatNow - IsoDays[log[n][1]] <= NinetyDays}
UnparsedLines(log) == {n \in 1..Len(log) : log[n][1] \notin DOMAIN IsoDays}

\* C27: a commit whose date does not parse counts for the year and not for
\* the three months, in both passes: after the bulk pass the commits_1y of a
\* path is the number of commits that name it and its commits_3m the number
\* of those with a date at most 90 days old, and what a follow query yields
\* has the number of lines of the follow log as commits_1y and the number of
\* lines with a date at most 90 days old as commits_3m.
C27_UnparsedDateCountsForYearOnly ==
    StatsReturned =>
        \A f \in Files :
            LET q == <<GitQuote(f)>>
            IN /\ Attributed(f) # {} =>
                    /\ q \in DOMAIN gs.run.bulk
                    /\ gs.run.bulk[q].commits_1y = Cardinality(Attributed(f))
                    /\ gs.run.bulk[q].commits_3m = Cardinality(Recent(Attributed(f)))
               /\ q \in gs.run.renamed_files =>
                    \A follow_stats \in gs.run.follow[q] :
                        /\ follow_stats.commits_1y = Len(FollowLog(gs.commits, f))
                        /\ follow_stats.commits_3m =
                              Cardinality(RecentLines(FollowLog(gs.commits, f)))

\* Two commits, one with a date that does not parse and one inside the
\* three months: a file the bulk pass counts with both, and a file whose
\* follow query lists both.
C27_Witness ==
    /\ StatsReturned
    /\ \E f \in Files :
          /\ Unparsed(Attributed(f)) # {}
          /\ gs.run.bulk[<<GitQuote(f)>>].commits_1y = 2
          /\ gs.run.bulk[<<GitQuote(f)>>].commits_3m = 1
    /\ \E f \in Files :
          /\ <<GitQuote(f)>> \in gs.run.renamed_files
          /\ UnparsedLines(FollowLog(gs.commits, f)) # {}
          /\ \E follow_stats \in gs.run.follow[<<GitQuote(f)>>] :
                follow_stats.commits_1y = 2 /\ follow_stats.commits_3m = 1
(***************************************************************************)
(* get_file_stats inside analyze_single_repo                               *)
(***************************************************************************)
\* git_stats = get_file_stats(repo_path) as analyze_single_repo gets it:
\* the call returns its mapping, also when the bulk query has failed.
GitAnswerFor_RaisesOnFailure(run) ==
    IF run.bulk_rc # 0 THEN [kind |-> "raises", stats |-> <<>>]
    ELSE [kind |-> "stats", stats |-> run.result]
GitAnswerFor(run) == [kind |-> "stats", stats |-> run.result]

\* The answers of cloc that list a file inside the repository.
ClocWithFilesInside ==
    {cloc \in ClocAnswers(TRUE) :
        \E i \in 1..Len(cloc.data) :
            cloc.data[i].key.kind = "file" /\ cloc.data[i].key.inside}

ZeroCommits == [last_commit_date |-> None, last_3_months |-> 0, last_year |-> 0]

\* C21: when the bulk history query exits with a non-zero code,
\* get_file_stats returns the empty mapping and raises nothing, and
\* analyze_single_repo still returns the node of the repository, with
\* every file cloc listed inside it and 0, 0, null as the commits of each.
C21_FailedQueryGivesZeroCommits ==
    (gs.pc = "done" /\ gs.run.bulk_rc # 0) =>
        /\ gs.run.result = <<>>
        /\ GitAnswerFor(gs.run).kind = "stats"
        /\ \A repo_path \in RepoPaths : \A cloc \in ClocWithFilesInside :
              LET r == analyze_single_repo(repo_path, RootPath, cloc, GitAnswerFor(gs.run))
                  inside == {i \in 1..Len(cloc.data) :
                                cloc.data[i].key.kind = "file" /\ cloc.data[i].key.inside}
              IN /\ ~IsNone(r.repo_node)
                 /\ Cardinality(FileNodesOf(Get(r.repo_node))) = Cardinality(inside)
                 /\ \A node \in FileNodesOf(Get(r.repo_node)) :
                       node.commits = Some(ZeroCommits)

\* The bulk query has failed in a repository with commits in its history.
C21_Witness ==
    /\ gs.pc = "done"
    /\ gs.run.bulk_rc # 0
    /\ gs.commits # <<>>
    /\ gs.run.result = <<>>
    /\ \E cloc \in ClocWithFilesInside :
          Cardinality(FileNodesOf(Get(analyze_single_repo(RootPath, RootPath, cloc,
                                         GitAnswerFor(gs.run)).repo_node))) = 2

(***************************************************************************)
(* Further properties of analyze_repos                                     *)
(***************************************************************************)
\* The number of file nodes below a node, and the sum of their 'value'.
RECURSIVE CountFileNodes(_)
CountFileNodes(node) ==
    IF node.type = "file" THEN 1
    ELSE SumUpTo([i \in 1..Len(node.children) |-> CountFileNodes(node.children[i])],
                 Len(node.children))

RECURSIVE SumValues(_)
SumValues(node) ==
    IF node.type = "file" THEN node.value
    ELSE SumUpTo([i \in 1..Len(node.children) |-> SumValues(node.children[i])],
                 Len(node.children))

\* C29: in a report, stats.total_files is the number of file nodes of the
\* tree and stats.total_lines is the sum of their 'value', also when cloc
\* has listed files outside the repository, which the tree drops.
C29_TotalsMatchTree ==
    Succeeded =>
        LET report == Get(orch.report_file)
        IN /\ report.stats.total_files = CountFileNodes(report.tree)
           /\ report.stats.total_lines = SumValues(report.tree)

(***************************************************************************)
(* The order of the children (tree_to_schema, analyze_single_repo)         *)
(***************************************************************************)
\* The names of the children of one type, in the order of the children.
NamesOfType(children, type) ==
    LET kept == SelectSeq(children, LAMBDA c : c.type = type)
    IN [i \in 1..Len(kept) |-> kept[i].name]

Ascending(names) == \A i \in 1..(Len(names) - 1) : names[i] < names[i + 1]

\* In a node and in every node below it, the directories among the
\* children are in ascending order of name, and so are the files.
RECURSIVE ChildrenInOrder(_)
ChildrenInOrder(node) ==
    node.type # "file" =>
        /\ Ascending(NamesOfType(node.children, "directory"))
        /\ Ascending(NamesOfType(node.children, "file"))
        /\ \A i \in 1..Len(node.children) : ChildrenInOrder(node.children[i])

\* The repository node analyze_single_repo builds of the tree.
RepoNodeOf(tree, git_stats) ==
    [path |-> <<1>>,
     name |-> 1,
     type |-> "repository",
     children |-> RepoChildren(tree, <<>>,
                               IF IsNone(git_stats) THEN <<>> ELSE Get(git_stats))]

\* C28: in the directory node tree_to_schema returns for a tree, in the
\* repository node analyze_single_repo builds of it, and in every
\* directory node below them, the directory children are in ascending
\* order of name and the file children are in ascending order of name,
\* whatever the order in which the files were listed.
C28_ChildrenSortedByName ==
    asm.pc = "converted" =>
        /\ \A node \in asm.result : ChildrenInOrder(node)
        /\ ChildrenInOrder(RepoNodeOf(asm.tree, asm.git_stats))

\* A tree whose top level got two files in descending order of name: the
\* directory node and the repository node have them as children.
C28_Witness ==
    /\ asm.pc = "converted"
    /\ ~IsNone(asm.result)
    /\ \E i, j \in 1..Len(asm.tree.files) :
          /\ i < j
          /\ asm.tree.files[i].dir = <<>> /\ asm.tree.files[j].dir = <<>>
          /\ asm.tree.files[i].name > asm.tree.files[j].name
    /\ Len(NamesOfType(Get(asm.result).children, "file")) >= 2
    /\ Len(NamesOfType(RepoNodeOf(asm.tree, asm.git_stats).children, "file")) >= 2

\* The run has ended because the root does not exist or holds no
\* repository.
FailedAtStart ==
    /\ orch.pc = "done"
    /\ ~Get(orch.result).success
    /\ Get(orch.result).data \in {PathMissing, NoReposFound}

\* C25: when the analysis root does not exist or holds no repository, the
\* run fails with that error before any staleness check, any call of cloc
\* and any history query.
C25_FailsBeforeAnyQuery ==
    /\ (orch.pc \notin {"start"} /\ ~orch.root_exists) =>
          FailedAtStart /\ Get(orch.result).data = PathMissing
    /\ (orch.pc \notin {"start", "discover"} /\ orch.root_exists /\ orch.repos = <<>>) =>
          FailedAtStart /\ Get(orch.result).data = NoReposFound
    /\ FailedAtStart =>
          /\ orch.checked = 0
          /\ orch.warned = 0
          /\ orch.answers = <<>>
          /\ orch.returned = <<>>
    /\ (orch.checked > 0 \/ orch.answers # <<>>) =>
          orch.root_exists /\ orch.repos # <<>>

\* The root exists and holds no repository: the run has failed, nothing
\* was checked or counted.
C25_Witness ==
    /\ FailedAtStart
    /\ orch.root_exists
    /\ Get(orch.result).data = NoReposFound
    /\ orch.checked = 0
    /\ orch.answers = <<>>

\* The totals and the repository nodes of the first n rounds, computed of
\* what the rounds returned.
RECURSIVE TotalsFor(_, _)
TotalsFor(ret, n) ==
    IF n = 0 THEN [languages |-> <<>>, total_files |-> 0, total_lines |-> 0]
    ELSE IF ~IsNone(ret[n].repo_node)
    THEN FoldFiles(TotalsFor(ret, n - 1), Get(ret[n].files))
    ELSE TotalsFor(ret, n - 1)

RECURSIVE NodesFor(_, _)
NodesFor(ret, n) ==
    IF n = 0 THEN <<>>
    ELSE NodesFor(ret, n - 1)
            \o (IF ~IsNone(ret[n].repo_node) THEN <<Get(ret[n].repo_node)>> ELSE <<>>)

\* check_staleness has returned its list.
StalenessReturned == orch.checked > 0 /\ orch.pc \in {"loop", "exit", "done"}
                        /\ (orch.pc = "done" =>
                               \/ Get(orch.result).success
                               \/ Get(orch.result).data # FetchTimeout)

\* C26: the staleness result does not change the outcome: the warning
\* callback is called once when a repository is 'behind' and not at all
\* when none is, and after it has returned every discovered repository is
\* analyzed and the report's stats and tree are those of what
\* analyze_single_repo returned for each, as in a run in which no
\* repository is behind.
C26_StalenessLeavesReportAlone ==
    /\ orch.pc \in {"start", "discover", "staleness"} => orch.warned = 0
    /\ StalenessReturned =>
          /\ orch.behind_count > 0 => orch.warned = 1
          /\ orch.behind_count = 0 => orch.warned = 0
          /\ orch.pc = "exit" => orch.behind_count > 0
    /\ (StalenessReturned /\ orch.pc = "done") =>
          /\ Len(orch.returned) = Len(orch.repos)
          /\ LET n == Len(orch.repos)
                 ret == orch.returned
                 nodes == NodesFor(ret, n)
             IN /\ Get(orch.result).success <=> nodes # <<>>
                /\ Get(orch.result).success =>
                      Get(orch.report_file) =
                          AnalysisJson(SetName, RootPath, NowStamp, TotalsFor(ret, n), nodes)

\* Two repositories are behind, the callback was called once, and the
\* report has both.
C26_Witness ==
    /\ Succeeded
    /\ orch.behind_count = 2
    /\ orch.warned = 1
    /\ Len(Get(orch.report_file).tree.children) = 2

(***************************************************************************)
(* _analyze_all (cli.py)                                                   *)
(*                                                                         *)
(* The registered sets are the rows of the database, which lists them by   *)
(* name; a set is its name and whether its path exists.  A call of         *)
(* _run_single_analysis is the environment: it returns (True, stats) or    *)
(* (False, message), or, when the run is interactive and the user answers  *)
(* the staleness prompt with Ctrl-C, SystemExit leaves the program.        *)
(***************************************************************************)
\* How many sets the database holds.
MaxSets == 3

OthersOfBatch == <<stale, pool, disc, asm, gs, orch, cpl, idx>>

\* The lists database.list_analysis_sets() may return.
SetLists ==
    {l \in UNION {[1..n -> [name : 1..MaxSets, path_exists : BOOLEAN]] : n \in 0..MaxSets} :
        \A i \in 1..Len(l) : \A j \in 1..Len(l) : i < j => l[i].name < l[j].name}

\* What _run_single_analysis returns.
RunOutcomes == {[data |-> "stats", success |-> TRUE],
                [data |-> NoneAnalyzed, success |-> FALSE]}

\* One round of the loop over the sets (cli.py 190-223): r is the result
\* dict appended for the set.
AfterSet_StopsAtFailure(b, r) ==
    [b EXCEPT !.results = Append(@, r),
              !.i = IF r.success THEN @ + 1 ELSE Len(b.sets) + 1]
AfterSet(b, r) == [b EXCEPT !.results = Append(@, r), !.i = @ + 1]

\* database = Database(db_path); sets = database.list_analysis_sets(); no
\* set gives True at once (cli.py 178-184).
ListSets(sets) ==
    /\ batch.pc = "start"
    /\ batch' = IF sets = <<>>
                THEN [batch EXCEPT !.pc = "done", !.listed = TRUE, !.returned = Some(TRUE)]
                ELSE [batch EXCEPT !.pc = "loop", !.listed = TRUE, !.sets = sets]
    /\ UNCHANGED OthersOfBatch

\* The database cannot be read: the exception is caught at the end of
\* _analyze_all (cli.py 267-269).
DatabaseRaises ==
    /\ batch.pc = "start"
    /\ batch' = [batch EXCEPT !.pc = "done", !.returned = Some(FALSE)]
    /\ UNCHANGED OthersOfBatch

\* A set whose path does not exist (cli.py 199-207).
SkipMissing ==
    /\ batch.pc = "loop"
    /\ batch.i <= Len(batch.sets)
    /\ ~batch.sets[batch.i].path_exists
    /\ batch' = AfterSet(batch, [name |-> batch.sets[batch.i].name,
                                 data |-> PathMissing,
                                 success |-> FALSE])
    /\ UNCHANGED OthersOfBatch

\* _run_single_analysis on the next set, and its result (cli.py 209-223).
RunSet(outcome) ==
    /\ batch.pc = "loop"
    /\ batch.i <= Len(batch.sets)
    /\ batch.sets[batch.i].path_exists
    /\ batch' = [AfterSet(batch, [name |-> batch.sets[batch.i].name,
                                  data |-> outcome.data,
                                  success |-> outcome.success])
                    EXCEPT !.runs = Append(@, batch.sets[batch.i].name)]
    /\ UNCHANGED OthersOfBatch

\* The user aborts at the staleness prompt of a set: SystemExit is no
\* Exception, nothing catches it.
AbortAtPrompt ==
    /\ batch.pc = "loop"
    /\ batch.i <= Len(batch.sets)
    /\ batch.sets[batch.i].path_exists
    /\ batch.interactive
    /\ batch' = [batch EXCEPT !.pc = "exit",
                              !.runs = Append(@, batch.sets[batch.i].name)]
    /\ UNCHANGED OthersOfBatch

\* After the loop: generate_analysis_index(), the summary, and
\* 'return failed == 0' (cli.py 228-265).
Summarize ==
    /\ batch.pc = "loop"
    /\ batch.i > Len(batch.sets)
    /\ LET succeeded == Cardinality({k \in 1..Len(batch.results) : batch.results[k].success})
           failed == Len(batch.results) - succeeded
       IN batch' = [batch EXCEPT !.pc = "done", !.index_calls = @ + 1,
                                 !.indexed_after = Len(batch.results),
                                 !.returned = Some(failed = 0)]
    /\ UNCHANGED OthersOfBatch

\* interactive = not (yes or quiet)
InitBatch ==
    /\ \E yes \in BOOLEAN, quiet \in BOOLEAN :
          batch = [pc |-> "start",
                   i |-> 1,
                   returned |-> None,
                   runs |-> <<>>,
                   results |-> <<>>,
                   sets |-> <<>>,
                   listed |-> FALSE,
                   interactive |-> ~(yes \/ quiet),
                   index_calls |-> 0,
                   indexed_after |-> 0,
                   quiet |-> quiet]
    /\ stale = Off /\ pool = Off /\ disc = Off /\ asm = Off /\ gs = Off
    /\ orch = Off /\ cpl = Off /\ idx = Off

NextBatch ==
    \/ \E sets \in SetLists : ListSets(sets)
    \/ DatabaseRaises
    \/ SkipMissing
    \/ \E outcome \in RunOutcomes : RunSet(outcome)
    \/ AbortAtPrompt
    \/ Summarize

SpecBatch == InitBatch /\ [][NextBatch]_vars

(***************************************************************************)
(* Properties of _analyze_all                                              *)
(***************************************************************************)
\* _analyze_all has read the list of the sets and has returned.
AllReturned == batch.pc = "done" /\ batch.listed

\* The sets whose path exists, in the order of the list.
WithPath(sets) ==
    LET kept == SelectSeq(sets, LAMBDA x : x.path_exists)
    IN [k \in 1..Len(kept) |-> kept[k].name]

\* C22: _analyze_all goes through every registered set in the order of
\* the list, also after a set whose path is missing or whose analysis has
\* failed; it returns True exactly when no set has failed, and True when
\* no set is registered; and it rebuilds the index once, after the last
\* set.
C22_EverySetAttempted ==
    /\ batch.pc = "loop" => batch.index_calls = 0
    /\ AllReturned =>
          /\ Len(batch.results) = Len(batch.sets)
          /\ \A k \in 1..Len(batch.sets) :
                /\ batch.results[k].name = batch.sets[k].name
                /\ ~batch.sets[k].path_exists =>
                      ~batch.results[k].success /\ batch.results[k].data = PathMissing
          /\ batch.runs = WithPath(batch.sets)
          /\ batch.returned = Some(\A k \in 1..Len(batch.sets) : batch.results[k].success)
          /\ batch.sets = <<>> => batch.returned = Some(TRUE)
          /\ batch.sets # <<>> =>
                batch.index_calls = 1 /\ batch.indexed_after = Len(batch.sets)

\* Three sets: the path of the first is missing, the analysis of the
\* second has failed, the third has succeeded; the run has returned False
\* and has rebuilt the index once.
C22_Witness ==
    /\ AllReturned
    /\ Len(batch.sets) = 3
    /\ ~batch.sets[1].path_exists
    /\ batch.results[2].data = NoneAnalyzed
    /\ batch.results[3].success
    /\ batch.returned = Some(FALSE)
    /\ batch.index_calls = 1

=============================================================================
